---- MODULE Spec2Model ----
(***************************************************************************)
(* Model of apify-schema-tools: the schema merge engine and parseSchemas   *)
(* of src/schemas.ts, the input schema filter, the generator of the input  *)
(* utilities and the parser of the generated input types.                  *)
(*                                                                         *)
(* Representation of the JSON values the code works on.                    *)
(*   - A schema node (a JS object holding JSON Schema keywords) is a       *)
(*     function from the keyword names it owns to their values; a keyword  *)
(*     the object does not own is outside the DOMAIN.                      *)
(*   - The value of `properties` is a JS object used as an ordered map: a  *)
(*     sequence of <<key, node>> pairs in own-property order, which is the *)
(*     order Object.entries, JSON.parse and JSON.stringify all use:        *)
(*     canonical array-index keys ("1", "2", ...) in ascending numeric     *)
(*     order first, then the other string keys in creation order.          *)
(*   - The value of `position` is [t |-> typeof, v |-> payload].           *)
(*   - The value of `required` is a sequence of keys.                      *)
(*   - The value of `items` is a node, or [jsArray |-> <<nodes>>] for the  *)
(*     tuple form.                                                         *)
(*   - A member inherited from Object.prototype, when the code reads it,   *)
(*     is [native |-> name].                                               *)
(***************************************************************************)
EXTENDS Integers, Sequences, FiniteSets, TLC

VARIABLES
  baseSchema,        \* contents of the object parsed from the base source
  additionalSchema,  \* contents of the object parsed from the additional source
  deepMerge,         \* the deepMerge option
  merged,            \* contents of the object the merge returned
  returned,          \* identities of the returned object and of its properties map
  parseProps,        \* the ParseSchemaProps given to parseSchemas
  files,             \* the file system: the JSON document at each existing path
  parseResult,       \* outcome of parseSchemas: the two schemas, or the error thrown
  fsCalls,           \* the file system calls parseSchemas made, in order
  inputSchema,       \* the input schema handed to the generators
  inputUtils,        \* the generated input-utils module
  filtered,          \* outcome of filterValidInputSchemaProperties
  call,              \* a call of the generated getInputWithDefaultValues
  callResult,        \* outcome of that call
  args,              \* the command line arguments of apify-generate
  filesAtStart,      \* the file system when apify-generate started
  exit,              \* how the run of apify-generate ended
  stdout,            \* the lines apify-generate logged
  generatedText,     \* the text given to parseGeneratedInputParams
  parsedParams,      \* the parameters parseGeneratedInputParams returned
  pc                 \* the step the program is at

mergeVars == <<baseSchema, additionalSchema, deepMerge, merged, returned>>

parseVars == <<parseProps, files, parseResult, fsCalls>>

generateVars == <<inputSchema, inputUtils, filtered, call, callResult>>

scriptVars == <<args, filesAtStart, exit, stdout>>

parserVars == <<generatedText, parsedParams>>

vars == <<mergeVars, parseVars, generateVars, scriptVars, parserVars, pc>>

\* Value of a variable the running program does not use.
Unused == [unused |-> TRUE]

MergeUnused ==
  /\ baseSchema = Unused
  /\ additionalSchema = Unused
  /\ deepMerge = Unused
  /\ merged = Unused
  /\ returned = Unused

ParseUnused ==
  /\ parseProps = Unused
  /\ files = Unused
  /\ parseResult = Unused
  /\ fsCalls = Unused

GenerateUnused ==
  /\ inputSchema = Unused
  /\ inputUtils = Unused
  /\ filtered = Unused
  /\ call = Unused
  /\ callResult = Unused

ScriptUnused ==
  /\ args = Unused
  /\ filesAtStart = Unused
  /\ exit = Unused
  /\ stdout = Unused

ParserUnused ==
  /\ generatedText = Unused
  /\ parsedParams = Unused

(***************************************************************************)
(* JavaScript object semantics used by schemas.ts                          *)
(***************************************************************************)

\* Keys that are canonical array indices, with their numeric value.
IndexKeys == {"1", "2"}

IndexOf(key) == IF key = "1" THEN 1 ELSE 2

\* Names every plain object inherits from Object.prototype.
ObjectPrototypeKeys == {"constructor"}

\* The empty object literal {}.
EmptyObject == <<>>

\* Own keys of an ordered map, as a set.
OwnKeys(obj) == {obj[i][1] : i \in 1..Len(obj)}

\* Own keys of an ordered map, in own-property order (Object.keys).
ObjectKeys(obj) == [i \in 1..Len(obj) |-> obj[i][1]]

\* Object.entries(obj): the own entries in own-property order.
ObjectEntries(obj) == obj

\* `key in obj`: own or inherited through the prototype chain.
HasProperty(obj, key) == key \in OwnKeys(obj) \/ key \in ObjectPrototypeKeys

\* obj[key] for a key with `key in obj`: the own value, else the inherited member.
GetProperty(obj, key) ==
  IF key \in OwnKeys(obj)
    THEN (CHOOSE e \in {obj[i] : i \in 1..Len(obj)} : e[1] = key)[2]
    ELSE [native |-> key]

\* Number of leading entries of obj that stay in front of a new own key.
InsertionPoint(obj, key) ==
  IF key \in IndexKeys
    THEN Cardinality({i \in 1..Len(obj) :
                        obj[i][1] \in IndexKeys /\ IndexOf(obj[i][1]) < IndexOf(key)})
    ELSE Len(obj)

\* CreateDataProperty(obj, key, value): overwrite in place, or add in own-property order.
DefineOwn(obj, key, value) ==
  IF key \in OwnKeys(obj)
    THEN [i \in 1..Len(obj) |-> IF obj[i][1] = key THEN <<key, value>> ELSE obj[i]]
    ELSE LET n == InsertionPoint(obj, key)
         IN  SubSeq(obj, 1, n) \o <<<<key, value>>>> \o SubSeq(obj, n + 1, Len(obj))

RECURSIVE DefineAll(_, _)
\* Copies the entries, in order, onto obj.
DefineAll(obj, entries) ==
  IF entries = <<>> THEN obj
  ELSE DefineAll(DefineOwn(obj, Head(entries)[1], Head(entries)[2]), Tail(entries))

\* Object.fromEntries(entries)
ObjectFromEntries(entries) == DefineAll(EmptyObject, entries)

\* { ...first, ...second } for two ordered maps.
SpreadEntries(first, second) ==
  DefineAll(DefineAll(EmptyObject, ObjectEntries(first)), ObjectEntries(second))

\* { ...first }: the keywords of the second node are left out.
SpreadNodesFirstOnly(first, second) == first

\* { ...second, ...first }: the keywords of the first node win.
SpreadNodesFirstWins(first, second) == first @@ second

\* { ...first, ...second } for two schema nodes (keyword order is not modelled).
SpreadNodes(first, second) == second @@ first

RECURSIVE InsertSorted(_, _)
\* Inserts entry e after every entry whose position is not greater.
InsertSorted(sorted, e) ==
  IF sorted = <<>> THEN <<e>>
  ELSE IF Head(sorted)[2].position.v - e[2].position.v <= 0
         THEN <<Head(sorted)>> \o InsertSorted(Tail(sorted), e)
         ELSE <<e>> \o sorted

RECURSIVE SortByPosition(_)
\* Array.prototype.sort with (a, b) => a[1].position - b[1].position: a stable sort.
SortByPosition(entries) ==
  IF entries = <<>> THEN <<>>
  ELSE InsertSorted(SortByPosition(SubSeq(entries, 1, Len(entries) - 1)),
                    entries[Len(entries)])

RECURSIVE SetFrom(_, _)
\* Array.from(new Set(array)): first occurrences, in order.
SetFrom(seen, array) ==
  IF array = <<>> THEN seen
  ELSE IF \E i \in 1..Len(seen) : seen[i] = Head(array)
         THEN SetFrom(seen, Tail(array))
         ELSE SetFrom(Append(seen, Head(array)), Tail(array))

\* The array as it is, duplicates included.
ArrayKeepingDuplicates(array) == array

ArrayFromSet(array) == SetFrom(<<>>, array)

\* Array.isArray(value)
IsArray(value) == "jsArray" \in DOMAIN value

(***************************************************************************)
(* src/schemas.ts                                                          *)
(***************************************************************************)

isOrderedSchemaProperty(property) ==
  "position" \in DOMAIN property /\ property.position.t = "number"

isObjectSchema(schema) == "type" \in DOMAIN schema /\ schema.type = "object"

isArraySchema(schema) == "type" \in DOMAIN schema /\ schema.type = "array"

\* schema.properties || {}
PropertiesOrEmpty(schema) ==
  IF "properties" \in DOMAIN schema THEN schema.properties ELSE EmptyObject

\* schema.required || []
RequiredOrEmpty(schema) ==
  IF "required" \in DOMAIN schema THEN schema.required ELSE <<>>

RECURSIVE mergeProperties(_, _, _)
RECURSIVE mergeObjectSchemas(_, _, _)
RECURSIVE mergeArraySchemas(_, _, _)
RECURSIVE MergeBaseEntries(_, _, _, _)

\* The first loop of mergeObjectSchemas: one merged entry per base entry.
MergeBaseEntries(entries, baseProperties, additionalProperties, deep) ==
  IF entries = <<>> THEN <<>>
  ELSE LET key == Head(entries)[1]
           baseProperty == Head(entries)[2]
           property == IF HasProperty(additionalProperties, key)
                         THEN mergeProperties(baseProperty,
                                              GetProperty(additionalProperties, key), deep)
                         ELSE baseProperty
       IN  <<<<key, property>>>>
             \o MergeBaseEntries(Tail(entries), baseProperties, additionalProperties, deep)

\* The second loop of mergeObjectSchemas: the entries only the additional schema has.
AdditionalOnlyEntries(baseProperties, additionalProperties) ==
  SelectSeq(ObjectEntries(additionalProperties),
            LAMBDA e : ~HasProperty(baseProperties, e[1]))

\* The entries in the order addProperty is called on them.
AddedEntries(baseSchemaArg, additionalSchemaArg, deep) ==
  LET baseProperties == PropertiesOrEmpty(baseSchemaArg)
      additionalProperties == PropertiesOrEmpty(additionalSchemaArg)
  IN  MergeBaseEntries(ObjectEntries(baseProperties), baseProperties,
                       additionalProperties, deep)
        \o AdditionalOnlyEntries(baseProperties, additionalProperties)

\* mergeProperties without the early return for a shallow merge.
mergePropertiesAlwaysDeep(baseProperty, additionalProperty, deep) ==
  IF isObjectSchema(baseProperty) /\ isObjectSchema(additionalProperty)
    THEN mergeObjectSchemas(baseProperty, additionalProperty, deep)
  ELSE IF isArraySchema(baseProperty) /\ isArraySchema(additionalProperty)
    THEN mergeArraySchemas(baseProperty, additionalProperty, deep)
  ELSE additionalProperty

\* mergeProperties recursing as soon as one side is an object or an array.
mergePropertiesEitherSide(baseProperty, additionalProperty, deep) ==
  IF ~deep THEN additionalProperty
  ELSE IF isObjectSchema(baseProperty) \/ isObjectSchema(additionalProperty)
    THEN mergeObjectSchemas(baseProperty, additionalProperty, deep)
  ELSE IF isArraySchema(baseProperty) \/ isArraySchema(additionalProperty)
    THEN mergeArraySchemas(baseProperty, additionalProperty, deep)
  ELSE additionalProperty

mergeProperties(baseProperty, additionalProperty, deep) ==
  IF ~deep THEN additionalProperty
  ELSE IF isObjectSchema(baseProperty) /\ isObjectSchema(additionalProperty)
    THEN mergeObjectSchemas(baseProperty, additionalProperty, deep)
  ELSE IF isArraySchema(baseProperty) /\ isArraySchema(additionalProperty)
    THEN mergeArraySchemas(baseProperty, additionalProperty, deep)
  ELSE additionalProperty

mergeObjectSchemas(baseSchemaArg, additionalSchemaArg, deep) ==
  LET added == AddedEntries(baseSchemaArg, additionalSchemaArg, deep)
      propertiesWithPosition ==
        SortByPosition(SelectSeq(added, LAMBDA e : isOrderedSchemaProperty(e[2])))
      propertiesWithoutPosition ==
        SelectSeq(added, LAMBDA e : ~isOrderedSchemaProperty(e[2]))
  IN  [properties |-> SpreadEntries(ObjectFromEntries(propertiesWithPosition),
                                    ObjectFromEntries(propertiesWithoutPosition)),
       required |-> ArrayFromSet(RequiredOrEmpty(baseSchemaArg)
                                   \o RequiredOrEmpty(additionalSchemaArg))]
        @@ SpreadNodes(baseSchemaArg, additionalSchemaArg)

\* mergeArraySchemas leaving the items to the spread: the additional items win.
mergeArraySchemasNoItems(baseSchemaArg, additionalSchemaArg, deep) ==
  SpreadNodes(baseSchemaArg, additionalSchemaArg)

mergeArraySchemas(baseSchemaArg, additionalSchemaArg, deep) ==
  IF /\ "items" \in DOMAIN baseSchemaArg
     /\ ~IsArray(baseSchemaArg.items)
     /\ "items" \in DOMAIN additionalSchemaArg
     /\ ~IsArray(additionalSchemaArg.items)
    THEN [items |-> mergeProperties(baseSchemaArg.items, additionalSchemaArg.items, deep)]
           @@ SpreadNodes(baseSchemaArg, additionalSchemaArg)
    ELSE SpreadNodes(baseSchemaArg, additionalSchemaArg)

(***************************************************************************)
(* Input schemas                                                           *)
(***************************************************************************)

\* Largest number of property entries the two inner schemas have together.
MaxProps == 3

\* Largest position value.
MaxPos == 2

\* Largest length of a required array.
MaxReq == 2

\* Largest nesting depth at which the two inner schemas sit.
MaxDepth == 2

\* A numeric position hint.
NumPos(n) == [t |-> "number", v |-> n]

\* A position hint that is not a number (a JSON string).
StrPos(n) == [t |-> "string", v |-> n]

PropertyKeys == {"a", "b", "1", "constructor"}

\* Scalar property nodes of a base schema: each carries a keyword of its own.
BaseLeaves ==
  {[type |-> "string", description |-> "base"]}
    \cup {[type |-> "string", description |-> "base", position |-> p] :
            p \in {NumPos(n) : n \in 1..MaxPos} \cup {StrPos(1)}}

\* Scalar property nodes of an additional schema.
AdditionalLeaves ==
  {[type |-> "boolean"]}
    \cup {[type |-> "boolean", position |-> p] :
            p \in {NumPos(n) : n \in 1..MaxPos} \cup {StrPos(1)}}

\* The values a key takes: the special keys take the first position only.
LeafAllowed(key, leaf) ==
  key \in {"a", "b"} \/ "position" \notin DOMAIN leaf \/ leaf.position = NumPos(1)

BaseEntries ==
  {e \in PropertyKeys \X BaseLeaves : LeafAllowed(e[1], e[2])}

AdditionalEntries ==
  {e \in PropertyKeys \X AdditionalLeaves : LeafAllowed(e[1], e[2])}

\* A properties object as JSON.parse builds it: distinct keys, index keys first.
IsOwnPropertyOrder(entries) ==
  \A i, j \in 1..Len(entries) :
    i < j => /\ entries[i][1] # entries[j][1]
             /\ entries[j][1] \in IndexKeys =>
                  /\ entries[i][1] \in IndexKeys
                  /\ IndexOf(entries[i][1]) < IndexOf(entries[j][1])

PropertyMaps(entrySet, n) ==
  {entries \in [1..n -> entrySet] : IsOwnPropertyOrder(entries)}

\* Object schemas with n property entries; with none, `properties` may be missing.
SchemasWithProperties(entrySet, n) ==
  {[type |-> "object", properties |-> props] : props \in PropertyMaps(entrySet, n)}
    \cup (IF n = 0 THEN {[type |-> "object"]} ELSE {})

\* Pairs of schemas that vary the properties.
PropertyPairs ==
  UNION {SchemasWithProperties(BaseEntries, i) \X SchemasWithProperties(AdditionalEntries, j) :
           <<i, j>> \in {ij \in (0..MaxProps) \X (0..MaxProps) : ij[1] + ij[2] <= MaxProps}}

RequiredArrays == UNION {[1..n -> {"a", "b"}] : n \in 0..MaxReq}

\* Object schemas that vary required and the root keywords.
SchemasWithRequired(leaf, rootKeywords) ==
  LET props == {[type |-> "object"],
                [type |-> "object", properties |-> <<<<"a", leaf>>>>]}
  IN  {kw @@ s : kw \in rootKeywords, s \in props}
        \cup {kw @@ [required |-> r] @@ s :
                kw \in rootKeywords, r \in RequiredArrays, s \in props}

\* Pairs of schemas that vary required.
RequiredPairs ==
  SchemasWithRequired([type |-> "string", description |-> "base"],
                      {<<>>, [title |-> "base", description |-> "base"]})
    \X SchemasWithRequired([type |-> "boolean"],
                           {<<>>, [title |-> "additional", schemaVersion |-> 1]})

InnerPairs == PropertyPairs \cup RequiredPairs

\* Paths from the root to the inner schema: through property "n" or through items.
Paths ==
  {path \in UNION {[1..d -> {"properties", "items"}] : d \in 0..MaxDepth} :
     path # <<>> => path[1] = "properties"}

\* Keywords of the nodes on the path, by side.
ObjectOnPath(side) ==
  IF side = "base"
    THEN [type |-> "object", description |-> "base", position |-> NumPos(1)]
    ELSE [type |-> "object", required |-> <<"n">>]

ArrayOnPath(side) ==
  IF side = "base"
    THEN [type |-> "array", description |-> "base", position |-> NumPos(1), minItems |-> 1]
    ELSE [type |-> "array", minItems |-> 2]

RECURSIVE Nest(_, _, _)
\* The schema that holds inner at the end of path.
Nest(path, inner, side) ==
  IF path = <<>> THEN inner
  ELSE IF Head(path) = "properties"
    THEN [properties |-> <<<<"n", Nest(Tail(path), inner, side)>>>>] @@ ObjectOnPath(side)
    ELSE [items |-> Nest(Tail(path), inner, side)] @@ ArrayOnPath(side)

\* Values of a key the two schemas share, of every kind.
BaseKinds ==
  {[type |-> "string", description |-> "base", position |-> NumPos(1)],
   [type |-> "object", description |-> "base", position |-> NumPos(2),
    properties |-> <<<<"x", [type |-> "string"]>>>>, required |-> <<"x">>],
   [type |-> "object", description |-> "base"],
   [type |-> "array", description |-> "base", position |-> NumPos(2),
    items |-> [type |-> "string", description |-> "base"]],
   [type |-> "array", description |-> "base",
    items |-> [type |-> "object", properties |-> <<<<"x", [type |-> "string"]>>>>]],
   [type |-> "array", description |-> "base", minItems |-> 1],
   [type |-> "array", description |-> "base",
    items |-> [jsArray |-> <<[type |-> "string"]>>]],
   [description |-> "base", position |-> NumPos(1)]}

AdditionalKinds ==
  {[type |-> "boolean"],
   [type |-> "boolean", position |-> NumPos(2)],
   [type |-> "object", properties |-> <<<<"y", [type |-> "boolean"]>>>>, required |-> <<"y">>],
   [type |-> "object", position |-> NumPos(1), required |-> <<"x", "x">>],
   [type |-> "array", items |-> [type |-> "boolean"]],
   [type |-> "array", position |-> NumPos(1),
    items |-> [type |-> "object", properties |-> <<<<"y", [type |-> "boolean"]>>>>]],
   [type |-> "array", minItems |-> 2],
   [type |-> "array", items |-> [jsArray |-> <<[type |-> "boolean"]>>]],
   [title |-> "additional"]}

\* Schemas sharing key "n", next to a key "a" of the base and a key "b" of the additional.
KindPairs ==
  {<<[type |-> "object", properties |-> <<<<"a", la>>, <<"n", kb>>>>],
     [type |-> "object", properties |-> <<<<"n", ka>>, <<"b", lb>>>>]>> :
     la \in {l \in BaseLeaves : LeafAllowed("1", l)}, kb \in BaseKinds,
     ka \in AdditionalKinds, lb \in {l \in AdditionalLeaves : LeafAllowed("1", l)}}

(***************************************************************************)
(* The merge as a state machine                                            *)
(***************************************************************************)

\* Identities of the objects JSON.parse built for the two sources.
ParsedObjects ==
  {"baseSchema", "baseSchema.properties", "additionalSchema", "additionalSchema.properties"}

\* A merge that assigns its result onto the base schema and returns it.
mergeObjectSchemasInPlace(baseSchemaArg, additionalSchemaArg, deep) ==
  [base |-> mergeObjectSchemas(baseSchemaArg, additionalSchemaArg, deep),
   additional |-> additionalSchemaArg,
   returned |-> [schema |-> "baseSchema", properties |-> "baseSchema.properties"]]

\* What a call of mergeObjectSchemas leaves of its arguments and which objects it
\* returns: it assigns to no property of either argument (it pushes to and sorts
\* its two local arrays only) and returns two fresh object literals.
mergeObjectSchemasObjects(baseSchemaArg, additionalSchemaArg, deep) ==
  [base |-> baseSchemaArg,
   additional |-> additionalSchemaArg,
   returned |-> [schema |-> "literal returned by mergeObjectSchemas",
                 properties |-> "literal of properties in mergeObjectSchemas"]]

\* Value of `merged` before the merge has run.
NotMerged == [pending |-> TRUE]

\* Both schemas sit at the end of the same path; the kinds sit under the root.
MergeInit ==
  /\ \/ \E pair \in InnerPairs, path \in Paths :
          /\ baseSchema = Nest(path, pair[1], "base")
          /\ additionalSchema = Nest(path, pair[2], "additional")
     \/ \E pair \in KindPairs :
          /\ baseSchema = pair[1]
          /\ additionalSchema = pair[2]
  /\ deepMerge \in BOOLEAN
  /\ merged = NotMerged
  /\ returned = [schema |-> "none", properties |-> "none"]
  /\ ParseUnused
  /\ GenerateUnused
  /\ ScriptUnused
  /\ ParserUnused
  /\ pc = "parsed"

\* inputSchema = mergeObjectSchemas(inputSchema, addInputSchema, deepMerge)
Merge ==
  /\ pc = "parsed"
  /\ LET objects == mergeObjectSchemasObjects(baseSchema, additionalSchema, deepMerge)
     IN  /\ baseSchema' = objects.base
         /\ additionalSchema' = objects.additional
         /\ returned' = objects.returned
  /\ merged' = mergeObjectSchemas(baseSchema, additionalSchema, deepMerge)
  /\ pc' = "merged"
  /\ UNCHANGED <<deepMerge, parseVars, generateVars, scriptVars, parserVars>>

MergeNext == Merge

MergeSpec == MergeInit /\ [][MergeNext]_vars

(***************************************************************************)
(* Properties of the merge                                                 *)
(***************************************************************************)

\* The set of elements of a sequence.
Range(seq) == {seq[i] : i \in 1..Len(seq)}

\* The own value of key in an ordered map that owns it.
ValueAt(obj, key) == obj[CHOOSE i \in 1..Len(obj) : obj[i][1] = key][2]

\* The elements of seq at their first occurrence, in order.
FirstOccurrences(seq) ==
  LET keep == {i \in 1..Len(seq) : \A j \in 1..(i - 1) : seq[j] # seq[i]}
  IN  [n \in 1..Cardinality(keep) |->
         seq[CHOOSE i \in keep : Cardinality({j \in keep : j < i}) = n - 1]]

\* Base entries in base order, then the entries only the additional array has.
RequiredUnion(base, additional) ==
  FirstOccurrences(RequiredOrEmpty(base))
    \o FirstOccurrences(SelectSeq(RequiredOrEmpty(additional),
                                  LAMBDA key : key \notin Range(RequiredOrEmpty(base))))

BaseProps == PropertiesOrEmpty(baseSchema)

AdditionalProps == PropertiesOrEmpty(additionalSchema)

SharedKeys == OwnKeys(BaseProps) \cap OwnKeys(AdditionalProps)

\* C1: the merged required array is the deduplicated union of the two required
\* arrays, the base's entries in base order first, then the entries only the
\* additional schema has in its order; a missing array counts as empty.
C1_RequiredUnion ==
  pc = "merged" =>
    /\ "required" \in DOMAIN merged
    /\ merged.required = RequiredUnion(baseSchema, additionalSchema)

\* A merge of overlapping required arrays, one with a duplicate.
C1_Witness ==
  /\ pc = "merged"
  /\ RequiredOrEmpty(baseSchema) = <<"b", "b">>
  /\ RequiredOrEmpty(additionalSchema) = <<"a", "b">>
  /\ merged.required = <<"b", "a">>

\* C2: without deep merge, the merged value of a key both schemas have is the
\* additional schema's value exactly; nothing of the base's value survives.
C2_ShallowOverlayWins ==
  (pc = "merged" /\ ~deepMerge) =>
    \A key \in SharedKeys :
      /\ key \in OwnKeys(merged.properties)
      /\ ValueAt(merged.properties, key) = ValueAt(AdditionalProps, key)

\* A shallow merge of two object values of a shared key with different nested properties.
C2_Witness ==
  /\ pc = "merged"
  /\ ~deepMerge
  /\ \E key \in SharedKeys :
       LET b == ValueAt(BaseProps, key)
           a == ValueAt(AdditionalProps, key)
       IN  /\ isObjectSchema(b) /\ isObjectSchema(a)
           /\ "properties" \in DOMAIN b /\ "properties" \in DOMAIN a
           /\ b.properties # a.properties
           /\ "description" \in DOMAIN b /\ "description" \notin DOMAIN a
           /\ ValueAt(merged.properties, key) = a

\* C3: the merged schema always has a properties map, whose keys are the union
\* of the keys of the two properties maps, and a key only one schema has keeps
\* that schema's value.
C3_KeyUnion ==
  pc = "merged" =>
    /\ "properties" \in DOMAIN merged
    /\ OwnKeys(merged.properties) = OwnKeys(BaseProps) \cup OwnKeys(AdditionalProps)
    /\ \A key \in OwnKeys(BaseProps) \ OwnKeys(AdditionalProps) :
         ValueAt(merged.properties, key) = ValueAt(BaseProps, key)
    /\ \A key \in OwnKeys(AdditionalProps) \ OwnKeys(BaseProps) :
         ValueAt(merged.properties, key) = ValueAt(AdditionalProps, key)

RECURSIVE IsDeepMergeOf(_, _, _)
\* result combines the object nodes base and additional by the per-key rule, at every depth.
IsDeepMergeOf(result, base, additional) ==
  LET baseProperties == PropertiesOrEmpty(base)
      additionalProperties == PropertiesOrEmpty(additional)
  IN  /\ "properties" \in DOMAIN result
      /\ OwnKeys(result.properties) = OwnKeys(baseProperties) \cup OwnKeys(additionalProperties)
      /\ "required" \in DOMAIN result
      /\ result.required = RequiredUnion(base, additional)
      /\ \A key \in OwnKeys(result.properties) :
           LET value == ValueAt(result.properties, key)
           IN  IF key \notin OwnKeys(additionalProperties)
                 THEN value = ValueAt(baseProperties, key)
               ELSE IF key \notin OwnKeys(baseProperties)
                 THEN value = ValueAt(additionalProperties, key)
               ELSE LET b == ValueAt(baseProperties, key)
                        a == ValueAt(additionalProperties, key)
                    IN  IF isObjectSchema(b) /\ isObjectSchema(a)
                          THEN IsDeepMergeOf(value, b, a)
                        ELSE IF isArraySchema(b) /\ isArraySchema(a)
                          THEN TRUE
                        ELSE value = a

\* C4: with deep merge, the merged value of a key whose two values are object
\* nodes is their recursive merge at every depth: the union of the nested keys,
\* the additional value for shared scalars, the deduplicated union of required.
C4_DeepObjectMerge ==
  (pc = "merged" /\ deepMerge) =>
    \A key \in SharedKeys :
      LET b == ValueAt(BaseProps, key)
          a == ValueAt(AdditionalProps, key)
      IN  (isObjectSchema(b) /\ isObjectSchema(a)) =>
            /\ key \in OwnKeys(merged.properties)
            /\ IsDeepMergeOf(ValueAt(merged.properties, key), b, a)

\* An array node with a single items sub-schema (not the tuple form).
HasSingleItems(schema) ==
  isArraySchema(schema) /\ "items" \in DOMAIN schema /\ ~IsArray(schema.items)

\* The object/array recursion rule applied to two items sub-schemas.
ItemsRule(baseItems, additionalItems) ==
  IF isObjectSchema(baseItems) /\ isObjectSchema(additionalItems)
    THEN mergeObjectSchemas(baseItems, additionalItems, TRUE)
  ELSE IF isArraySchema(baseItems) /\ isArraySchema(additionalItems)
    THEN mergeArraySchemas(baseItems, additionalItems, TRUE)
  ELSE additionalItems

C6_ShapeGate ==
  (pc = "merged" /\ deepMerge) =>
    \A key \in SharedKeys :
      LET b == ValueAt(BaseProps, key)
          a == ValueAt(AdditionalProps, key)
      IN  (/\ ~(isObjectSchema(b) /\ isObjectSchema(a))
           /\ ~(isArraySchema(b) /\ isArraySchema(a))) =>
            /\ key \in OwnKeys(merged.properties)
            /\ ValueAt(merged.properties, key) = a

\* A deep merge where a shared key is an object in the base and an array in the
\* additional schema, and the base value has a keyword of its own.
C6_Witness ==
  /\ pc = "merged"
  /\ deepMerge
  /\ \E key \in SharedKeys :
       LET b == ValueAt(BaseProps, key)
           a == ValueAt(AdditionalProps, key)
       IN  /\ isObjectSchema(b) /\ isArraySchema(a)
           /\ "properties" \in DOMAIN b
           /\ "position" \in DOMAIN b /\ "position" \notin DOMAIN a
           /\ ValueAt(merged.properties, key) = a

\* The position that orders a property: its numeric position, if it has one.
HasOrdinal(property) == "position" \in DOMAIN property /\ property.position.t = "number"

\* Positioned entries come first, in ascending position.
IsPositionOrdered(props) ==
  \A i, j \in 1..Len(props) :
    (i < j /\ HasOrdinal(props[j][2])) =>
      /\ HasOrdinal(props[i][2])
      /\ props[i][2].position.v <= props[j][2].position.v

\* C7: in the key order of the merged properties, every property whose final
\* value has a numeric position precedes every property without one, and the
\* positioned ones are in ascending order of their final position.
C7_PositionOrder ==
  pc = "merged" => IsPositionOrdered(merged.properties)

\* The keys in the order the source schemas give them: the base's, then the
\* ones only the additional schema has.
SourceOrder ==
  ObjectKeys(BaseProps)
    \o SelectSeq(ObjectKeys(AdditionalProps), LAMBDA key : key \notin OwnKeys(BaseProps))

\* The index of the first occurrence of key in seq.
IndexIn(seq, key) == CHOOSE i \in 1..Len(seq) : seq[i] = key /\ \A j \in 1..(i - 1) : seq[j] # key

\* Two properties that the position does not tell apart.
SameOrdinal(p, q) ==
  \/ ~HasOrdinal(p) /\ ~HasOrdinal(q)
  \/ HasOrdinal(p) /\ HasOrdinal(q) /\ p.position.v = q.position.v

\* C8: merged properties with the same position, and those without a position,
\* keep the order of the source schemas, the additional schema's after the base's.
C8_TiesKeepSourceOrder ==
  pc = "merged" =>
    \A i, j \in 1..Len(merged.properties) :
      (i < j /\ SameOrdinal(merged.properties[i][2], merged.properties[j][2])) =>
        IndexIn(SourceOrder, merged.properties[i][1])
          < IndexIn(SourceOrder, merged.properties[j][1])

\* Two nodes carry the same position: both none, or the same value.
SamePosition(p, q) ==
  /\ ("position" \in DOMAIN p) = ("position" \in DOMAIN q)
  /\ "position" \in DOMAIN p => p.position = q.position

\* C9 as stated: for every shared key, deep or not, the position of the merged
\* value is the position of the additional schema's definition of the key.
C9_PositionAlwaysFromOverlay ==
  pc = "merged" =>
    \A key \in SharedKeys :
      SamePosition(ValueAt(merged.properties, key), ValueAt(AdditionalProps, key))

\* Deep merge combines the two values of the key instead of overwriting.
IsCombined(b, a) ==
  deepMerge /\ \/ isObjectSchema(b) /\ isObjectSchema(a)
               \/ isArraySchema(b) /\ isArraySchema(a)

\* C9 amended: the position that places a shared key is the position of its
\* merged value: the additional definition's position whenever the value is
\* overwritten, and, when deep merge combines two objects or two arrays, the
\* additional definition's position if it has one and the base's otherwise.
C9_PositionOfMergedValue ==
  pc = "merged" =>
    \A key \in SharedKeys :
      LET b == ValueAt(BaseProps, key)
          a == ValueAt(AdditionalProps, key)
          value == ValueAt(merged.properties, key)
      IN  IF IsCombined(b, a) /\ "position" \notin DOMAIN a
            THEN SamePosition(value, b)
            ELSE SamePosition(value, a)

\* A deep merge that combines the two values of a shared key where only the
\* base's definition has a position: the merged value keeps it.
C9_Witness ==
  /\ pc = "merged"
  /\ \E key \in SharedKeys :
       LET b == ValueAt(BaseProps, key)
           a == ValueAt(AdditionalProps, key)
           value == ValueAt(merged.properties, key)
       IN  /\ IsCombined(b, a)
           /\ "position" \in DOMAIN b /\ "position" \notin DOMAIN a
           /\ HasOrdinal(value)
           /\ value.position = b.position

PassthroughKeys(schema) == DOMAIN schema \ {"properties", "required"}

\* C11: every root keyword other than properties and required holds the
\* additional schema's value when it has the keyword and the base's otherwise;
\* keywords only the base has are kept, keywords only the additional has are added.
C11_RootKeywords ==
  pc = "merged" =>
    /\ PassthroughKeys(merged) = PassthroughKeys(baseSchema) \cup PassthroughKeys(additionalSchema)
    /\ \A keyword \in PassthroughKeys(merged) :
         merged[keyword] = IF keyword \in DOMAIN additionalSchema
                             THEN additionalSchema[keyword]
                             ELSE baseSchema[keyword]

\* A merge where the title is overridden, the description is the base's alone
\* and schemaVersion is the additional schema's alone.
C11_Witness ==
  /\ pc = "merged"
  /\ "title" \in DOMAIN baseSchema /\ "title" \in DOMAIN additionalSchema
  /\ baseSchema.title # additionalSchema.title
  /\ merged.title = additionalSchema.title
  /\ "description" \notin DOMAIN additionalSchema
  /\ merged.description = baseSchema.description
  /\ "schemaVersion" \notin DOMAIN baseSchema
  /\ merged.schemaVersion = additionalSchema.schemaVersion

(***************************************************************************)
(* The result of a merge merged again                                      *)
(***************************************************************************)

\* Object schemas that have no properties.
SchemasWithoutProperties ==
  {[type |-> "object"], [type |-> "object", properties |-> EmptyObject]}

\* The two schemas sit under the root.
RemergeInit ==
  /\ \E pair \in PropertyPairs \cup KindPairs :
       /\ baseSchema = pair[1]
       /\ additionalSchema = pair[2]
  /\ deepMerge \in BOOLEAN
  /\ merged = NotMerged
  /\ returned = [schema |-> "none", properties |-> "none"]
  /\ ParseUnused
  /\ GenerateUnused
  /\ ScriptUnused
  /\ ParserUnused
  /\ pc = "parsed"

\* schema = mergeObjectSchemas(schema, overlay, deepMerge) on the result of the
\* merge, the overlay being the same additional schema or one without properties.
Remerge ==
  /\ pc = "merged"
  /\ \E overlay \in {additionalSchema} \cup SchemasWithoutProperties :
       /\ baseSchema' = merged
       /\ additionalSchema' = overlay
       /\ merged' = mergeObjectSchemas(merged, overlay, deepMerge)
       /\ returned' = mergeObjectSchemasObjects(merged, overlay, deepMerge).returned
  /\ pc' = "remerged"
  /\ UNCHANGED <<deepMerge, parseVars, generateVars, scriptVars, parserVars>>

RemergeNext == Merge \/ Remerge

RemergeSpec == RemergeInit /\ [][RemergeNext]_vars

\* C30: ordering is idempotent: merging the result of a merge with an overlay
\* that has no properties, or a second time with the same overlay, leaves the
\* key order of properties unchanged.
C30_OrderingIdempotent ==
  pc = "remerged" =>
    ObjectKeys(PropertiesOrEmpty(merged)) = ObjectKeys(PropertiesOrEmpty(baseSchema))

(***************************************************************************)
(* src/schemas.ts: parseSchemas                                            *)
(***************************************************************************)

\* `src` as a condition: the prop is given and is not the empty string.
IsGiven(schemaProps, key) == key \in DOMAIN schemaProps /\ schemaProps[key] # ""

\* fs.existsSync(path)
existsSync(fileSystem, path) == path \in DOMAIN fileSystem

\* JSON.parse(fs.readFileSync(path).toString())
ReadJson(fileSystem, path) == fileSystem[path]

\* The first check of parseSchemas with || in place of &&.
NoSourceGivenEither(schemaProps) ==
  ~IsGiven(schemaProps, "inputSrc") \/ ~IsGiven(schemaProps, "datasetSrc")

\* !inputSrc && !datasetSrc
NoSourceGiven(schemaProps) ==
  ~IsGiven(schemaProps, "inputSrc") /\ ~IsGiven(schemaProps, "datasetSrc")

ConfigurationError ==
  [message |-> "Specify at least one schema source file to parse: inputSrc or datasetSrc"]

NotFoundError(key, path) ==
  [message |-> IF key = "inputSrc" THEN "Input schema source file not found"
                                   ELSE "Dataset schema source file not found",
   path |-> path]

\* Reading one primary source: the schema (<<>> for undefined), whether the
\* source is given but missing, and the file system calls made.
LoadSource(schemaProps, fileSystem, key) ==
  IF ~IsGiven(schemaProps, key)
    THEN [missing |-> FALSE, schema |-> <<>>, calls |-> <<>>]
  ELSE IF ~existsSync(fileSystem, schemaProps[key])
    THEN [missing |-> TRUE, schema |-> <<>>,
          calls |-> <<<<"existsSync", schemaProps[key]>>>>]
  ELSE [missing |-> FALSE, schema |-> <<ReadJson(fileSystem, schemaProps[key])>>,
        calls |-> <<<<"existsSync", schemaProps[key]>>, <<"readFileSync", schemaProps[key]>>>>]

\* The merge step taking a missing additional file for an empty schema.
MergeAdditionalMissingAsEmpty(schema, schemaProps, fileSystem, key) ==
  IF schema # <<>> /\ IsGiven(schemaProps, key)
    THEN [schema |-> <<mergeObjectSchemas(
                         schema[1],
                         IF existsSync(fileSystem, schemaProps[key])
                           THEN ReadJson(fileSystem, schemaProps[key])
                           ELSE [type |-> "object"],
                         schemaProps.deepMerge)>>,
          calls |-> <<<<"existsSync", schemaProps[key]>>>>]
    ELSE [schema |-> schema, calls |-> <<>>]

\* if (schema && addSrc && fs.existsSync(addSrc)) schema = mergeObjectSchemas(...)
MergeAdditional(schema, schemaProps, fileSystem, key) ==
  IF schema # <<>> /\ IsGiven(schemaProps, key)
    THEN IF existsSync(fileSystem, schemaProps[key])
           THEN [schema |-> <<mergeObjectSchemas(schema[1],
                                                 ReadJson(fileSystem, schemaProps[key]),
                                                 schemaProps.deepMerge)>>,
                 calls |-> <<<<"existsSync", schemaProps[key]>>,
                             <<"readFileSync", schemaProps[key]>>>>]
           ELSE [schema |-> schema, calls |-> <<<<"existsSync", schemaProps[key]>>>>]
    ELSE [schema |-> schema, calls |-> <<>>]

Thrown(error, calls) ==
  [status |-> "thrown", error |-> error, inputSchema |-> <<>>, datasetSchema |-> <<>>,
   calls |-> calls]

parseSchemas(schemaProps, fileSystem) ==
  IF NoSourceGiven(schemaProps) THEN Thrown(ConfigurationError, <<>>)
  ELSE
    LET input == LoadSource(schemaProps, fileSystem, "inputSrc")
    IN  IF input.missing
          THEN Thrown(NotFoundError("inputSrc", schemaProps.inputSrc), input.calls)
        ELSE
          LET dataset == LoadSource(schemaProps, fileSystem, "datasetSrc")
          IN  IF dataset.missing
                THEN Thrown(NotFoundError("datasetSrc", schemaProps.datasetSrc),
                            input.calls \o dataset.calls)
              ELSE
                LET mergedInput ==
                      MergeAdditional(input.schema, schemaProps, fileSystem, "addInputSrc")
                    mergedDataset ==
                      MergeAdditional(dataset.schema, schemaProps, fileSystem, "addDatasetSrc")
                IN  [status |-> "returned",
                     error |-> [message |-> "none"],
                     inputSchema |-> mergedInput.schema,
                     datasetSchema |-> mergedDataset.schema,
                     calls |-> input.calls \o dataset.calls
                                 \o mergedInput.calls \o mergedDataset.calls]

\* A prop that may be absent.
OptionalProp(key, values) == {<<>>} \cup {key :> value : value \in values}

\* The props of a call: each source absent, empty, an existing path or a missing one.
ParseSchemaProps ==
  {[deepMerge |-> deep] @@ a @@ b @@ c @@ d :
     deep \in BOOLEAN,
     a \in OptionalProp("inputSrc", {"", "src-schemas/input.json", "nowhere/input.json"}),
     b \in OptionalProp("datasetSrc", {"", "src-schemas/dataset-item.json", "nowhere/dataset.json"}),
     c \in OptionalProp("addInputSrc", {"", "add/input.json", "nowhere/add-input.json"}),
     d \in OptionalProp("addDatasetSrc", {"", "add/dataset-item.json", "nowhere/add-dataset.json"})}

\* Source schemas: unsorted positions, no required, a required with a duplicate.
SourceInputSchemas ==
  {[type |-> "object", title |-> "Input",
    properties |-> <<<<"a", [type |-> "string", position |-> NumPos(2)]>>,
                     <<"b", [type |-> "string"]>>,
                     <<"c", [type |-> "string", position |-> NumPos(1)]>>>>],
   [type |-> "object",
    properties |-> <<<<"a", [type |-> "string"]>>>>,
    required |-> <<"a", "a">>]}

AdditionalInputSchemas ==
  {[type |-> "object"],
   [type |-> "object",
    properties |-> <<<<"c", [type |-> "boolean", position |-> NumPos(1)]>>>>,
    required |-> <<"c">>]}

SourceDatasetSchemas ==
  {[type |-> "object",
    properties |-> <<<<"url", [type |-> "string"]>>,
                     <<"title", [type |-> "string", position |-> NumPos(1)]>>>>]}

AdditionalDatasetSchemas ==
  {[type |-> "object", properties |-> <<<<"price", [type |-> "number"]>>>>,
    required |-> <<"price">>]}

FileSystems ==
  {("src-schemas/input.json" :> i) @@ ("add/input.json" :> ai)
     @@ ("src-schemas/dataset-item.json" :> d) @@ ("add/dataset-item.json" :> ad) :
     i \in SourceInputSchemas, ai \in AdditionalInputSchemas,
     d \in SourceDatasetSchemas, ad \in AdditionalDatasetSchemas}

ParseInit ==
  /\ parseProps \in ParseSchemaProps
  /\ files \in FileSystems
  /\ parseResult = [status |-> "pending"]
  /\ fsCalls = <<>>
  /\ MergeUnused
  /\ GenerateUnused
  /\ ScriptUnused
  /\ ParserUnused
  /\ pc = "parseSchemas"

\* A call of parseSchemas, to its return or to the error it throws.
ParseSchemas ==
  /\ pc = "parseSchemas"
  /\ LET result == parseSchemas(parseProps, files)
     IN  /\ parseResult' = [status |-> result.status, error |-> result.error,
                            inputSchema |-> result.inputSchema,
                            datasetSchema |-> result.datasetSchema]
         /\ fsCalls' = result.calls
  /\ pc' = "parseSchemasDone"
  /\ UNCHANGED <<parseProps, files, mergeVars, generateVars, scriptVars, parserVars>>

ParseNext == ParseSchemas

ParseSpec == ParseInit /\ [][ParseNext]_vars

\* The additional source of a primary source.
AdditionalKey(key) == IF key = "inputSrc" THEN "addInputSrc" ELSE "addDatasetSrc"

\* The schema parseSchemas returned for a primary source.
ReturnedSchema(key) ==
  IF key = "inputSrc" THEN parseResult.inputSchema ELSE parseResult.datasetSchema

\* An error parseSchemas throws on account of the primary sources alone.
IsPrimarySourceError ==
  \/ parseResult.error = ConfigurationError /\ NoSourceGiven(parseProps)
  \/ \E key \in {"inputSrc", "datasetSrc"} :
       /\ IsGiven(parseProps, key)
       /\ ~existsSync(files, parseProps[key])
       /\ parseResult.error = NotFoundError(key, parseProps[key])

\* C12: an additional source path that does not exist raises no error, and the
\* schema returned for that source is the base schema exactly as read.
C12_MissingOverlay ==
  pc = "parseSchemasDone" =>
    \A key \in {"inputSrc", "datasetSrc"} :
      (/\ IsGiven(parseProps, AdditionalKey(key))
       /\ ~existsSync(files, parseProps[AdditionalKey(key)])) =>
        /\ parseResult.status = "thrown" => IsPrimarySourceError
        /\ (parseResult.status = "returned" /\ IsGiven(parseProps, key)) =>
             ReturnedSchema(key) = <<ReadJson(files, parseProps[key])>>

\* A returned call whose additional input path is missing, on a base schema a
\* merge would have reordered.
C12_Witness ==
  /\ pc = "parseSchemasDone"
  /\ parseResult.status = "returned"
  /\ IsGiven(parseProps, "inputSrc")
  /\ IsGiven(parseProps, "addInputSrc")
  /\ ~existsSync(files, parseProps.addInputSrc)
  /\ "required" \notin DOMAIN parseResult.inputSchema[1]
  /\ ~IsPositionOrdered(parseResult.inputSchema[1].properties)

\* C13: parseSchemas throws the configuration error, with no file touched,
\* exactly when neither inputSrc nor datasetSrc is a non-empty path; when exactly
\* one of them is, the other schema is undefined and the given one is parsed.
C13_ConfigurationError ==
  pc = "parseSchemasDone" =>
    /\ (parseResult.status = "thrown" /\ parseResult.error = ConfigurationError)
         <=> (~IsGiven(parseProps, "inputSrc") /\ ~IsGiven(parseProps, "datasetSrc"))
    /\ (parseResult.status = "thrown" /\ parseResult.error = ConfigurationError)
         => fsCalls = <<>>
    /\ \A key \in {"inputSrc", "datasetSrc"} :
         LET other == IF key = "inputSrc" THEN "datasetSrc" ELSE "inputSrc"
         IN  (IsGiven(parseProps, key) /\ ~IsGiven(parseProps, other)) =>
               IF existsSync(files, parseProps[key])
                 THEN /\ parseResult.status = "returned"
                      /\ ReturnedSchema(other) = <<>>
                      /\ ReturnedSchema(key) # <<>>
                      /\ <<"readFileSync", parseProps[key]>> \in Range(fsCalls)
                 ELSE /\ parseResult.status = "thrown"
                      /\ parseResult.error = NotFoundError(key, parseProps[key])

\* A call with both sources empty or absent, and one with an empty inputSrc only.
C13_Witness ==
  /\ pc = "parseSchemasDone"
  /\ "inputSrc" \in DOMAIN parseProps /\ parseProps.inputSrc = ""
  /\ \/ /\ "datasetSrc" \notin DOMAIN parseProps
        /\ parseResult.status = "thrown"
        /\ "addInputSrc" \in DOMAIN parseProps
        /\ existsSync(files, parseProps.addInputSrc)
     \/ /\ IsGiven(parseProps, "datasetSrc")
        /\ parseResult.status = "returned"
        /\ parseResult.inputSchema = <<>>

(***************************************************************************)
(* src/typescript: the generated input types and their parser              *)
(*                                                                         *)
(* The TypeScript text compile() returns is a sequence of lines, each the  *)
(* sequence of its tokens: a word (\w+), a quoted string literal,          *)
(* punctuation, or white space. The white space around a line and after    *)
(* the colon of a member, which trim() and \s* skip, is dropped; the white *)
(* space inside a type expression is kept.                                 *)
(* A JSON value (a default, a field of an input) is [t |-> type, v |-> text]*)
(* with the JSON text of a scalar, or [t |-> "object", entries |-> map].   *)
(***************************************************************************)

Word(text) == [kind |-> "word", text |-> text]

Quoted(text) == [kind |-> "string", text |-> text]

Punct(text) == [kind |-> "punct", text |-> text]

Space == [kind |-> "space", text |-> " "]

\* A key the TypeScript printer writes bare; any other key is written quoted.
IsIdentifier(key) == key \notin IndexKeys

KeyToken(key) == IF IsIdentifier(key) THEN Word(key) ELSE Quoted(key)

\* The TypeScript name of a scalar JSON Schema type.
TypeName(type) == IF type = "integer" THEN "number" ELSE type

\* The type a member is printed from: a node without a type is `unknown`.
DeclaredType(node) == IF "type" \in DOMAIN node THEN node.type ELSE "unknown"

RECURSIVE InterfaceMembers(_, _)
\* The member lines of an object type: `key: T;` for a required key, `key?: T;`
\* for any other; an array member is `T[]`, an object member opens a nested
\* literal closed by `};`.
InterfaceMembers(entries, requiredKeys) ==
  IF entries = <<>> THEN <<>>
  ELSE
    LET key == Head(entries)[1]
        node == Head(entries)[2]
        start == <<KeyToken(key)>>
                   \o (IF key \in Range(requiredKeys) THEN <<>> ELSE <<Punct("?")>>)
                   \o <<Punct(":")>>
        lines ==
          IF DeclaredType(node) = "array"
            THEN <<start \o <<Word("unknown"), Punct("[]"), Punct(";")>>>>
          ELSE IF DeclaredType(node) = "object"
            THEN IF PropertiesOrEmpty(node) = EmptyObject
                   THEN <<start \o <<Punct("{"), Punct("}"), Punct(";")>>>>
                   ELSE <<start \o <<Punct("{")>>>>
                          \o InterfaceMembers(ObjectEntries(node.properties),
                                              RequiredOrEmpty(node))
                          \o <<<<Punct("}"), Punct(";")>>>>
          ELSE <<start \o <<Word(TypeName(DeclaredType(node))), Punct(";")>>>>
    IN  lines \o InterfaceMembers(Tail(entries), requiredKeys)

\* compile(schema, name, options) of json-schema-to-typescript: a banner comment,
\* then the interface named after the title of the schema.
compile(schema) ==
  <<<<Punct("/*"), Word("eslint"), Punct("-"), Word("disable"), Punct("*/")>>,
    <<Word("export"), Word("interface"), Word(schema.title), Punct("{")>>>>
    \o InterfaceMembers(ObjectEntries(PropertiesOrEmpty(schema)), RequiredOrEmpty(schema))
    \o <<<<Punct("}")>>>>

\* trimmedLine.startsWith("export interface Input {") ||
\* trimmedLine.startsWith("export type Input = {")
StartsInputDeclaration(trimmedLine) ==
  \/ /\ Len(trimmedLine) >= 4
     /\ SubSeq(trimmedLine, 1, 4)
          = <<Word("export"), Word("interface"), Word("Input"), Punct("{")>>
  \/ /\ Len(trimmedLine) >= 5
     /\ SubSeq(trimmedLine, 1, 5)
          = <<Word("export"), Word("type"), Word("Input"), Punct("="), Punct("{")>>

\* Index of the colon of a member line: after the key and its optional mark.
ColonAt(trimmedLine) ==
  IF Len(trimmedLine) >= 2 /\ trimmedLine[2] = Punct("?") THEN 3 ELSE 2

\* A token made of the characters of the class [\w|].
IsTypeToken(token) == token.kind = "word" \/ token = Punct("|")

RECURSIVE TypeRun(_, _)
\* Number of tokens [\w|]+ takes, greedily, from the index on.
TypeRun(trimmedLine, from) ==
  IF from <= Len(trimmedLine) /\ IsTypeToken(trimmedLine[from])
    THEN 1 + TypeRun(trimmedLine, from + 1)
    ELSE 0

RECURSIVE JoinText(_)
\* The text of consecutive tokens.
JoinText(tokens) ==
  IF tokens = <<>> THEN "" ELSE Head(tokens).text \o JoinText(Tail(tokens))

\* trimmedLine.match(/^\s*(\w+)(\?)?:\s*([\w|]+);/)
MatchesMember(trimmedLine) ==
  /\ Len(trimmedLine) >= ColonAt(trimmedLine) + 2
  /\ trimmedLine[1].kind = "word"
  /\ trimmedLine[ColonAt(trimmedLine)] = Punct(":")
  /\ TypeRun(trimmedLine, ColonAt(trimmedLine) + 1) >= 1
  /\ LET after == ColonAt(trimmedLine) + 1 + TypeRun(trimmedLine, ColonAt(trimmedLine) + 1)
     IN  after <= Len(trimmedLine) /\ trimmedLine[after] = Punct(";")

\* The InputParam of a matching line.
MatchedParam(trimmedLine) ==
  [key |-> trimmedLine[1].text,
   type |-> JoinText(SubSeq(trimmedLine, ColonAt(trimmedLine) + 1,
                            ColonAt(trimmedLine)
                              + TypeRun(trimmedLine, ColonAt(trimmedLine) + 1))),
   optional |-> ColonAt(trimmedLine) = 3]

RECURSIVE ScanLines(_, _, _)
\* The loop over the lines: skip to the declaration of Input, collect the
\* matching lines, stop at the first line that is `}` alone.
ScanLines(lines, insideInterface, params) ==
  IF lines = <<>> THEN params
  ELSE IF insideInterface
    THEN IF Head(lines) = <<Punct("}")>> THEN params
         ELSE ScanLines(Tail(lines), TRUE,
                        IF MatchesMember(Head(lines))
                          THEN Append(params, MatchedParam(Head(lines)))
                          ELSE params)
  ELSE ScanLines(Tail(lines), StartsInputDeclaration(Head(lines)), params)

parseGeneratedInputParams(tsContent) == ScanLines(tsContent, FALSE, <<>>)

(***************************************************************************)
(* generateInputDefaultsFileContent and the module it generates            *)
(***************************************************************************)

\* defaultValues[property] = value
Assign(obj, key, value) == DefineOwn(obj, key, value)

\* A JSON value that counts as false in a condition.
IsFalsy(value) ==
  \/ value.t = "undefined"
  \/ value.t = "null"
  \/ value.t = "integer" /\ value.v = "0"
  \/ value.t = "string" /\ value.v = ""
  \/ value.t = "boolean" /\ value.v = "false"

RECURSIVE CollectDefaultsReversed(_, _)
\* The loop, each default put in front of the ones found before it.
CollectDefaultsReversed(entries, defaultValues) ==
  IF entries = <<>> THEN defaultValues
  ELSE CollectDefaultsReversed(
         Tail(entries),
         IF "default" \in DOMAIN Head(entries)[2]
           THEN <<<<Head(entries)[1], Head(entries)[2].default>>>> \o defaultValues
           ELSE defaultValues)

RECURSIVE CollectDefaultsTruthy(_, _)
\* The loop with `if (definition.default)`: a falsy default is left out.
CollectDefaultsTruthy(entries, defaultValues) ==
  IF entries = <<>> THEN defaultValues
  ELSE CollectDefaultsTruthy(
         Tail(entries),
         IF /\ "default" \in DOMAIN Head(entries)[2]
            /\ ~IsFalsy(Head(entries)[2].default)
           THEN Assign(defaultValues, Head(entries)[1], Head(entries)[2].default)
           ELSE defaultValues)

RECURSIVE CollectDefaults(_, _)
\* for (const [property, definition] of Object.entries(properties))
\*   if ("default" in definition) defaultValues[property] = definition.default;
CollectDefaults(entries, defaultValues) ==
  IF entries = <<>> THEN defaultValues
  ELSE CollectDefaults(
         Tail(entries),
         IF "default" \in DOMAIN Head(entries)[2]
           THEN Assign(defaultValues, Head(entries)[1], Head(entries)[2].default)
           ELSE defaultValues)

\* The object literal JSON.stringify(obj, null, 4) writes, evaluated: the own
\* entries, in own-property order.
StringifiedObject(obj) == ObjectFromEntries(ObjectEntries(obj))

\* A type the generated module imports: one whose name starts in upper case.
IsImportedType(type) == type \notin {"string", "number", "boolean", "unknown"}

\* param.optional && param.key in defaultValues
IsOptionalWithDefault(param, defaultValues) ==
  param.optional /\ HasProperty(defaultValues, param.key)

\* else if (!param.optional && !(param.key in defaultValues))
IsRequiredWithoutDefault(param, defaultValues) ==
  /\ ~IsOptionalWithDefault(param, defaultValues)
  /\ ~param.optional
  /\ ~HasProperty(defaultValues, param.key)

\* parseGeneratedInputParams(await compile({ ...inputSchema, title: "Input" }, ...))
InputParams(schema) ==
  parseGeneratedInputParams(compile(SpreadNodes(schema, [title |-> "Input"])))

\* The module generateInputDefaultsFileContent writes: its two constants, the
\* members of InputWithDefaults, the imported types, and the statement emitted
\* for a call without input.
generateInputDefaultsFileContent(schema) ==
  LET defaultValues == CollectDefaults(ObjectEntries(PropertiesOrEmpty(schema)), EmptyObject)
      params == InputParams(schema)
      IsOptionalParam(param) == IsOptionalWithDefault(param, defaultValues)
      IsRequiredParam(param) == IsRequiredWithoutDefault(param, defaultValues)
      optionalParamsWithDefaults == SelectSeq(params, IsOptionalParam)
      requiredParamsWithoutDefaults == SelectSeq(params, IsRequiredParam)
      IsImported(param) == IsImportedType(param.type)
  IN  [paramTypesToImport |->
         [i \in 1..Len(SelectSeq(optionalParamsWithDefaults, IsImported)) |->
            SelectSeq(optionalParamsWithDefaults, IsImported)[i].type],
       DEFAULT_INPUT_VALUES |-> StringifiedObject(defaultValues),
       REQUIRED_INPUT_FIELDS_WITHOUT_DEFAULT |->
         [i \in 1..Len(requiredParamsWithoutDefaults) |-> requiredParamsWithoutDefaults[i].key],
       InputWithDefaults |->
         [i \in 1..Len(optionalParamsWithDefaults) |->
            <<optionalParamsWithDefaults[i].key, optionalParamsWithDefaults[i].type>>],
       withoutInput |-> IF Len(requiredParamsWithoutDefaults) > 0 THEN "throw" ELSE "empty"]

Undefined == [t |-> "undefined", v |-> "undefined"]

Null == [t |-> "null", v |-> "null"]

ObjectValue(entries) == [t |-> "object", entries |-> entries]

Returns(value) == [status |-> "returned", value |-> value]

\* throw new Error('Input is required, ...: ' + REQUIRED_INPUT_FIELDS_WITHOUT_DEFAULT.join(', '))
InputRequiredError(utils) ==
  [status |-> "thrown",
   error |-> [message |-> "Input is required, because the following fields are required: ",
              fields |-> utils.REQUIRED_INPUT_FIELDS_WITHOUT_DEFAULT]]

\* { ...input, ...DEFAULT_INPUT_VALUES }: a default replaces the value given.
WithDefaultsOnTop(utils, input) ==
  Returns(ObjectValue(SpreadEntries(input.entries, utils.DEFAULT_INPUT_VALUES)))

\* return { ...DEFAULT_INPUT_VALUES, ...input };
WithDefaults(utils, input) ==
  Returns(ObjectValue(SpreadEntries(utils.DEFAULT_INPUT_VALUES, input.entries)))

\* The body of `if (!input)` always being `input = {}`.
WithoutInputNeverThrows(utils) == WithDefaults(utils, ObjectValue(EmptyObject))

\* The body of `if (!input)`: the statement emitted when the module was generated.
WithoutInput(utils) ==
  IF utils.withoutInput = "throw"
    THEN InputRequiredError(utils)
    ELSE WithDefaults(utils, ObjectValue(EmptyObject))

\* The function without its first statement.
getInputWithDefaultValuesAnywhere(utils, isAtHome, input) ==
  IF input.t \in {"undefined", "null"} THEN WithoutInput(utils)
  ELSE WithDefaults(utils, input)

\* The generated getInputWithDefaultValues(input), Actor.isAtHome() being isAtHome.
getInputWithDefaultValues(utils, isAtHome, input) ==
  IF isAtHome THEN Returns(input)
  ELSE IF input.t \in {"undefined", "null"} THEN WithoutInput(utils)
  ELSE WithDefaults(utils, input)

(***************************************************************************)
(* The input schemas given to the generator, and the calls of the module   *)
(***************************************************************************)

MaxParams == 3

StringValue(text) == [t |-> "string", v |-> text]

IntegerValue(text) == [t |-> "integer", v |-> text]

\* Definitions of a property: without a default, with one, with a falsy one,
\* an array, and an object with a required member of its own.
ParamDefinitions ==
  {[type |-> "string"],
   [type |-> "string", default |-> StringValue("x")],
   [type |-> "integer", default |-> IntegerValue("0")],
   [type |-> "array"],
   [type |-> "object",
    properties |-> <<<<"n", [type |-> "string"]>>>>,
    required |-> <<"n">>]}

\* The properties of an input schema: an ordered map in own-property order.
ParamMaps ==
  {entries \in UNION {[1..n -> PropertyKeys \X ParamDefinitions] : n \in 0..MaxParams} :
     IsOwnPropertyOrder(entries)}

\* The keys of the ordered map that are in the set, in the order of the map.
KeysAmong(entries, keys) ==
  LET IsIn(entry) == entry[1] \in keys
  IN  [i \in 1..Len(SelectSeq(entries, IsIn)) |-> SelectSeq(entries, IsIn)[i][1]]

InputSchemas ==
  {[type |-> "object", title |-> "Actor input", properties |-> properties,
    required |-> KeysAmong(properties, requiredKeys)] :
     properties \in ParamMaps, requiredKeys \in SUBSET PropertyKeys}

\* The inputs of a call: none, null, and objects with and without the keys of
\* the schema.
CallInputs ==
  {Undefined, Null, ObjectValue(EmptyObject),
   ObjectValue(<<<<"a", StringValue("given")>>>>),
   ObjectValue(<<<<"z", IntegerValue("7")>>, <<"b", StringValue("given")>>>>)}

InputUtilsInit ==
  /\ inputSchema \in InputSchemas
  /\ inputUtils = [status |-> "pending"]
  /\ filtered = [status |-> "pending"]
  /\ call = [status |-> "pending"]
  /\ callResult = [status |-> "pending"]
  /\ MergeUnused
  /\ ParseUnused
  /\ ScriptUnused
  /\ ParserUnused
  /\ pc = "generate"

\* generateInputDefaultsFileContent(inputSchema) writes the module.
GenerateInputDefaults ==
  /\ pc = "generate"
  /\ inputUtils' = generateInputDefaultsFileContent(inputSchema)
  /\ pc' = "generated"
  /\ UNCHANGED <<inputSchema, filtered, call, callResult, mergeVars, parseVars, scriptVars, parserVars>>

\* A call of getInputWithDefaultValues of the generated module.
GetInputWithDefaultValues ==
  /\ pc = "generated"
  /\ \E isAtHome \in BOOLEAN, input \in CallInputs :
       /\ call' = [isAtHome |-> isAtHome, input |-> input]
       /\ callResult' = getInputWithDefaultValues(inputUtils, isAtHome, input)
  /\ pc' = "called"
  /\ UNCHANGED <<inputSchema, inputUtils, filtered, mergeVars, parseVars, scriptVars, parserVars>>

InputUtilsNext == GenerateInputDefaults \/ GetInputWithDefaultValues

InputUtilsSpec == InputUtilsInit /\ [][InputUtilsNext]_vars

(***************************************************************************)
(* Properties of the generated input utilities                             *)
(***************************************************************************)

\* The top-level properties of the schema that declare a default, in order.
DeclaredDefaults(schema) ==
  LET Declares(entry) == "default" \in DOMAIN entry[2]
      declaring == SelectSeq(ObjectEntries(PropertiesOrEmpty(schema)), Declares)
  IN  [i \in 1..Len(declaring) |-> <<declaring[i][1], declaring[i][2].default>>]

\* The parameters classified optional-with-default, in parameter order.
OptionalWithDefault(schema) ==
  LET IsClassified(param) ==
        param.optional /\ param.key \in OwnKeys(DeclaredDefaults(schema))
  IN  SelectSeq(InputParams(schema), IsClassified)

\* The parameters classified required-without-default, in parameter order.
RequiredWithoutDefault(schema) ==
  LET IsClassified(param) ==
        ~param.optional /\ param.key \notin OwnKeys(DeclaredDefaults(schema))
  IN  SelectSeq(InputParams(schema), IsClassified)

\* C14 as stated: DEFAULT_INPUT_VALUES is the defaults index restricted to the
\* keys classified optional-with-default, in parameter order; a required key
\* with a default is not an entry.
C14_DefaultsOfOptionalOnly ==
  pc # "generate" =>
    inputUtils.DEFAULT_INPUT_VALUES =
      [i \in 1..Len(OptionalWithDefault(inputSchema)) |->
         <<OptionalWithDefault(inputSchema)[i].key,
           ValueAt(DeclaredDefaults(inputSchema), OptionalWithDefault(inputSchema)[i].key)>>]

\* C14: DEFAULT_INPUT_VALUES is the whole defaults index, entry for entry: every
\* key with a declared default, of an optional or of a required parameter, with
\* that default as its value, in the order of the properties of the schema.
C14_DefaultsIndexInOrder ==
  pc # "generate" =>
    ObjectEntries(inputUtils.DEFAULT_INPUT_VALUES) = DeclaredDefaults(inputSchema)

\* A module with two defaults, the second one of a required parameter.
C14_Witness ==
  /\ pc = "generated"
  /\ Len(inputUtils.DEFAULT_INPUT_VALUES) = 2
  /\ inputUtils.DEFAULT_INPUT_VALUES[2][1] \in Range(inputSchema.required)
  /\ inputUtils.DEFAULT_INPUT_VALUES[1][1] \notin Range(inputSchema.required)
  /\ \E param \in Range(InputParams(inputSchema)) :
       param.key = inputUtils.DEFAULT_INPUT_VALUES[2][1] /\ ~param.optional

\* C15: DEFAULT_INPUT_VALUES has one entry for every top-level property that
\* declares a default, listed in required or not, and none for any other.
C15_EntryPerDeclaredDefault ==
  pc # "generate" =>
    /\ \A entry \in Range(ObjectEntries(PropertiesOrEmpty(inputSchema))) :
         entry[1] \in OwnKeys(inputUtils.DEFAULT_INPUT_VALUES)
           <=> "default" \in DOMAIN entry[2]
    /\ OwnKeys(inputUtils.DEFAULT_INPUT_VALUES)
         \subseteq OwnKeys(PropertiesOrEmpty(inputSchema))
    /\ Cardinality(OwnKeys(inputUtils.DEFAULT_INPUT_VALUES))
         = Len(inputUtils.DEFAULT_INPUT_VALUES)

\* A required property with a falsy default, next to one without a default.
C15_Witness ==
  /\ pc = "generated"
  /\ \E i, j \in 1..Len(inputSchema.properties) :
       /\ inputSchema.properties[i][1] \in Range(inputSchema.required)
       /\ "default" \in DOMAIN inputSchema.properties[i][2]
       /\ IsFalsy(inputSchema.properties[i][2].default)
       /\ inputSchema.properties[i][1] \in OwnKeys(inputUtils.DEFAULT_INPUT_VALUES)
       /\ "default" \notin DOMAIN inputSchema.properties[j][2]
       /\ inputSchema.properties[j][1] \notin OwnKeys(inputUtils.DEFAULT_INPUT_VALUES)

\* C16: REQUIRED_INPUT_FIELDS_WITHOUT_DEFAULT lists, in parameter order, exactly
\* the keys of the parsed parameters that are not optional and have no entry in
\* the defaults index.
C16_RequiredWithoutDefault ==
  pc # "generate" =>
    inputUtils.REQUIRED_INPUT_FIELDS_WITHOUT_DEFAULT =
      [i \in 1..Len(RequiredWithoutDefault(inputSchema)) |->
         RequiredWithoutDefault(inputSchema)[i].key]

\* C28: every parsed parameter is a direct member of the Input declaration, a
\* top-level property of the schema; a member of a nested type literal yields
\* none, so REQUIRED_INPUT_FIELDS_WITHOUT_DEFAULT names top-level properties
\* only.
C28_TopLevelMembersOnly ==
  pc # "generate" =>
    /\ \A param \in Range(InputParams(inputSchema)) :
         param.key \in OwnKeys(PropertiesOrEmpty(inputSchema))
    /\ Range(inputUtils.REQUIRED_INPUT_FIELDS_WITHOUT_DEFAULT)
         \subseteq OwnKeys(PropertiesOrEmpty(inputSchema))

\* C17: outside the host, a call without input (absent or null) throws the
\* error naming REQUIRED_INPUT_FIELDS_WITHOUT_DEFAULT if and only if that list
\* is not empty; when it is empty the call returns exactly the default values.
C17_NoInput ==
  (pc = "called" /\ ~call.isAtHome /\ call.input.t \in {"undefined", "null"}) =>
    IF inputUtils.REQUIRED_INPUT_FIELDS_WITHOUT_DEFAULT # <<>>
      THEN /\ callResult.status = "thrown"
           /\ callResult.error.fields = inputUtils.REQUIRED_INPUT_FIELDS_WITHOUT_DEFAULT
      ELSE /\ callResult.status = "returned"
           /\ callResult.value = ObjectValue(inputUtils.DEFAULT_INPUT_VALUES)

\* A call with null outside the host that throws, the module having defaults.
C17_Witness ==
  /\ pc = "called"
  /\ ~call.isAtHome
  /\ call.input.t = "null"
  /\ callResult.status = "thrown"
  /\ Len(callResult.error.fields) = 2
  /\ inputUtils.DEFAULT_INPUT_VALUES # <<>>

\* C18: outside the host, a call with an input object returns the object whose
\* keys are those of DEFAULT_INPUT_VALUES and of the input, with the value of the
\* input for a key of the input and the default for any other; it never throws.
C18_DefaultsUnderInput ==
  (pc = "called" /\ ~call.isAtHome /\ call.input.t = "object") =>
    /\ callResult.status = "returned"
    /\ callResult.value.t = "object"
    /\ OwnKeys(callResult.value.entries)
         = OwnKeys(inputUtils.DEFAULT_INPUT_VALUES) \cup OwnKeys(call.input.entries)
    /\ Cardinality(OwnKeys(callResult.value.entries)) = Len(callResult.value.entries)
    /\ \A key \in OwnKeys(callResult.value.entries) :
         ValueAt(callResult.value.entries, key) =
           IF key \in OwnKeys(call.input.entries)
             THEN ValueAt(call.input.entries, key)
             ELSE ValueAt(inputUtils.DEFAULT_INPUT_VALUES, key)

\* A call whose input gives one defaulted key, lacks another, and lacks a
\* required field without default.
C18_Witness ==
  /\ pc = "called"
  /\ ~call.isAtHome
  /\ call.input.t = "object"
  /\ \E given \in OwnKeys(call.input.entries) :
       /\ given \in OwnKeys(inputUtils.DEFAULT_INPUT_VALUES)
       /\ ValueAt(inputUtils.DEFAULT_INPUT_VALUES, given) # ValueAt(call.input.entries, given)
  /\ OwnKeys(inputUtils.DEFAULT_INPUT_VALUES) \ OwnKeys(call.input.entries) # {}
  /\ \E field \in Range(inputUtils.REQUIRED_INPUT_FIELDS_WITHOUT_DEFAULT) :
       field \notin OwnKeys(call.input.entries)
  /\ callResult.status = "returned"

\* C19: under the host, the call returns the input it was given, an absent or
\* null input included, whatever the two constants hold.
C19_AtHomeUnchanged ==
  (pc = "called" /\ call.isAtHome) => callResult = Returns(call.input)

\* A call under the host with null, the module having defaults and required
\* fields without default.
C19_Witness ==
  /\ pc = "called"
  /\ call.isAtHome
  /\ call.input.t = "null"
  /\ callResult = Returns(Null)
  /\ inputUtils.DEFAULT_INPUT_VALUES # <<>>
  /\ inputUtils.REQUIRED_INPUT_FIELDS_WITHOUT_DEFAULT # <<>>

(***************************************************************************)
(* filterValidInputSchemaProperties                                        *)
(*                                                                         *)
(* The schema is a JSON value: every object, the root, the properties map  *)
(* and each property included, is an ObjectValue whose entries are in      *)
(* own-property order.                                                     *)
(***************************************************************************)

VALID_INPUT_ROOT_KEYS ==
  <<"title", "description", "type", "schemaVersion", "properties", "required">>

VALID_INPUT_PROPERTY_KEYS ==
  <<"type", "title", "description", "default", "prefill", "example",
    "sectionCaption", "sectionDescription">>

\* array.includes(value)
Includes(array, value) == \E i \in 1..Len(array) : array[i] = value

\* The keywords each case of the switch adds to VALID_INPUT_PROPERTY_KEYS.
TypeKeys(type) ==
  CASE type = "string" ->
         <<"editor", "pattern", "minLength", "maxLength", "enum", "enumTitles",
           "nullable", "isSecret", "dateType", "resourceType">>
    [] type = "boolean" -> <<"editor", "groupCaption", "groupDescription", "nullable">>
    [] type = "integer" -> <<"editor", "maximum", "minimum", "unit", "nullable">>
    [] type = "object" ->
         <<"editor", "patternKey", "patternValue", "maxProperties", "minProperties",
           "nullable">>
    [] type = "array" ->
         <<"editor", "placeholderKey", "placeholderValue", "patternKey", "patternValue",
           "maxItems", "minItems", "uniqueItems", "nullable", "resourceType">>

\* The cases of the switch.
SwitchCases == {"string", "boolean", "integer", "object", "array"}

\* obj[key] for a keyword: the own value, or undefined.
Get(entries, key) == IF key \in OwnKeys(entries) THEN ValueAt(entries, key) ELSE Undefined

\* The condition of the array case with the items kept whatever the editor.
KeepsKeywordItemsAlways(type, specs, specsKey) ==
  \/ Includes(VALID_INPUT_PROPERTY_KEYS \o TypeKeys(type), specsKey)
  \/ type = "array" /\ specsKey = "items"

\* The condition under which a case copies a keyword of the property.
KeepsKeyword(type, specs, specsKey) ==
  \/ Includes(VALID_INPUT_PROPERTY_KEYS \o TypeKeys(type), specsKey)
  \/ /\ type = "array"
     /\ specsKey = "items"
     /\ Get(specs, "editor") = StringValue("select")

RECURSIVE FilterSpecs(_, _, _, _)
\* for (const [specsKey, specsValue] of Object.entries(specs))
\*   if (...) filteredSpecs[specsKey] = specsValue;
FilterSpecs(type, specs, entries, filteredSpecs) ==
  IF entries = <<>> THEN filteredSpecs
  ELSE FilterSpecs(type, specs, Tail(entries),
                   IF KeepsKeyword(type, specs, Head(entries)[1])
                     THEN Assign(filteredSpecs, Head(entries)[1], Head(entries)[2])
                     ELSE filteredSpecs)

Throws(message, detail) ==
  [status |-> "thrown", error |-> [message |-> message, detail |-> detail]]

RECURSIVE FilterPropertiesLenient(_, _)
\* The loop leaving out, without an error, a property it cannot filter.
FilterPropertiesLenient(entries, resultProperties) ==
  IF entries = <<>> THEN Returns(ObjectValue(resultProperties))
  ELSE
    LET property == Head(entries)[1]
        specs == Head(entries)[2].entries
        type == Get(specs, "type")
    IN  IF IsFalsy(type) \/ type.t # "string" \/ type.v \notin SwitchCases
          THEN FilterPropertiesLenient(Tail(entries), resultProperties)
          ELSE FilterPropertiesLenient(
                 Tail(entries),
                 Assign(resultProperties, property,
                        ObjectValue(FilterSpecs(type.v, specs, ObjectEntries(specs),
                                                EmptyObject))))

RECURSIVE FilterProperties(_, _)
\* The loop over the properties: the filtered map, or the error of the first
\* property without a type or with a type outside the switch.
FilterProperties(entries, resultProperties) ==
  IF entries = <<>> THEN Returns(ObjectValue(resultProperties))
  ELSE
    LET property == Head(entries)[1]
        specs == Head(entries)[2].entries
        type == Get(specs, "type")
    IN  IF IsFalsy(type)
          THEN Throws("Property's type is required in the input schema", Undefined)
        ELSE IF type.t # "string" \/ type.v \notin SwitchCases
          THEN Throws("Invalid property type: ", type)
        ELSE FilterProperties(
               Tail(entries),
               Assign(resultProperties, property,
                      ObjectValue(FilterSpecs(type.v, specs, ObjectEntries(specs),
                                              EmptyObject))))

RECURSIVE FilterRoot(_, _)
\* The loop over the root keys.
FilterRoot(entries, result) ==
  IF entries = <<>> THEN Returns(ObjectValue(result))
  ELSE
    LET key == Head(entries)[1]
        value == Head(entries)[2]
    IN  IF ~Includes(VALID_INPUT_ROOT_KEYS, key) THEN FilterRoot(Tail(entries), result)
        ELSE IF key # "properties"
          THEN FilterRoot(Tail(entries), Assign(result, key, value))
        ELSE LET properties == FilterProperties(ObjectEntries(value.entries), EmptyObject)
             IN  IF properties.status = "thrown" THEN properties
                 ELSE FilterRoot(Tail(entries), Assign(result, key, properties.value))

filterValidInputSchemaProperties(schema) == FilterRoot(ObjectEntries(schema.entries), EmptyObject)

MaxFilterProps == 2

\* A nested property list, as an object property may carry.
NestedProperties ==
  ObjectValue(<<<<"n", ObjectValue(<<<<"type", StringValue("string")>>>>)>>>>)

ItemsOfStrings == ObjectValue(<<<<"type", StringValue("string")>>>>)

\* The properties given to the filter: each case of the switch with keywords of
\* its own, of another case and of none; arrays with items and each editor; a
\* property without a type and one of a type outside the switch.
FilterDefinitions ==
  {ObjectValue(<<<<"type", StringValue("string")>>, <<"title", StringValue("A")>>,
                 <<"position", IntegerValue("2")>>, <<"pattern", StringValue("^a")>>,
                 <<"minimum", IntegerValue("1")>>>>),
   ObjectValue(<<<<"unit", StringValue("s")>>, <<"type", StringValue("integer")>>,
                 <<"maxLength", IntegerValue("3")>>, <<"default", IntegerValue("0")>>>>),
   ObjectValue(<<<<"type", StringValue("boolean")>>, <<"enum", StringValue("x")>>,
                 <<"groupCaption", StringValue("G")>>>>),
   ObjectValue(<<<<"type", StringValue("object")>>, <<"properties", NestedProperties>>,
                 <<"patternKey", StringValue("k")>>, <<"position", IntegerValue("1")>>>>),
   ObjectValue(<<<<"type", StringValue("array")>>, <<"items", ItemsOfStrings>>,
                 <<"editor", StringValue("select")>>, <<"isSecret", StringValue("true")>>>>),
   ObjectValue(<<<<"editor", StringValue("json")>>, <<"type", StringValue("array")>>,
                 <<"items", ItemsOfStrings>>, <<"uniqueItems", StringValue("true")>>>>),
   ObjectValue(<<<<"type", StringValue("array")>>, <<"items", ItemsOfStrings>>>>),
   ObjectValue(<<<<"title", StringValue("untyped")>>>>),
   ObjectValue(<<<<"type", [t |-> "string", v |-> "number"]>>,
                 <<"minimum", IntegerValue("0")>>>>)}

FilterPropertyMaps ==
  {entries \in UNION {[1..n -> PropertyKeys \X FilterDefinitions] : n \in 0..MaxFilterProps} :
     IsOwnPropertyOrder(entries)}

\* The root of a schema: the keys of the set, in a fixed order.
RootEntries(keys, properties) ==
  LET all == <<<<"$schema", StringValue("http://json-schema.org/draft-07/schema#")>>,
               <<"title", StringValue("Actor input")>>,
               <<"required", [t |-> "array", v |-> "[a]"]>>,
               <<"type", StringValue("object")>>,
               <<"schemaVersion", IntegerValue("1")>>,
               <<"additionalProperties", StringValue("false")>>,
               <<"properties", ObjectValue(properties)>>>>
      IsKept(entry) == entry[1] \in keys
  IN  SelectSeq(all, IsKept)

FilterInputSchemas ==
  {ObjectValue(RootEntries(keys \cup {"type"}, properties)) :
     keys \in SUBSET {"$schema", "title", "required", "schemaVersion",
                      "additionalProperties", "properties"},
     properties \in FilterPropertyMaps}

FilterInit ==
  /\ inputSchema \in FilterInputSchemas
  /\ filtered = [status |-> "pending"]
  /\ inputUtils = Unused
  /\ call = Unused
  /\ callResult = Unused
  /\ MergeUnused
  /\ ParseUnused
  /\ ScriptUnused
  /\ ParserUnused
  /\ pc = "filter"

\* filterValidInputSchemaProperties(inputSchema), to its return or its throw.
FilterValidInputSchemaProperties ==
  /\ pc = "filter"
  /\ filtered' = filterValidInputSchemaProperties(inputSchema)
  /\ pc' = "filtered"
  /\ UNCHANGED <<inputSchema, inputUtils, call, callResult, mergeVars, parseVars, scriptVars, parserVars>>

FilterNext == FilterValidInputSchemaProperties

FilterSpec == FilterInit /\ [][FilterNext]_vars

\* The entries of an ordered map whose keys are in the array, in their order.
EntriesWithin(entries, array) ==
  LET IsListed(entry) == Includes(array, entry[1])
  IN  SelectSeq(entries, IsListed)

\* The keywords a property of the given specs may keep.
AllowedKeywords(specs) ==
  VALID_INPUT_PROPERTY_KEYS \o TypeKeys(Get(specs, "type").v)
    \o (IF /\ Get(specs, "type").v = "array"
           /\ "editor" \in OwnKeys(specs)
           /\ ValueAt(specs, "editor") = StringValue("select")
          THEN <<"items">> ELSE <<>>)

\* C20: the schema filterValidInputSchemaProperties returns has, in their order
\* and with their values, the root keys of the input that are among title,
\* description, type, schemaVersion, properties and required; each property
\* keeps, in order, exactly its keywords allowed for its type: an array keeps
\* items if and only if its editor is "select", and position and nested
\* properties are removed.
C20_FilteredSchema ==
  (pc = "filtered" /\ filtered.status = "returned") =>
    LET source == inputSchema.entries
        result == filtered.value.entries
    IN  /\ ObjectKeys(result) = ObjectKeys(EntriesWithin(source, VALID_INPUT_ROOT_KEYS))
        /\ OwnKeys(result)
             \subseteq {"title", "description", "type", "schemaVersion", "properties", "required"}
        /\ \A key \in OwnKeys(result) \ {"properties"} :
             ValueAt(result, key) = ValueAt(source, key)
        /\ "properties" \in OwnKeys(result) =>
             LET sourceProperties == ValueAt(source, "properties").entries
                 resultProperties == ValueAt(result, "properties").entries
             IN  /\ ObjectKeys(resultProperties) = ObjectKeys(sourceProperties)
                 /\ \A i \in 1..Len(sourceProperties) :
                      LET specs == sourceProperties[i][2].entries
                          kept == resultProperties[i][2].entries
                      IN  /\ kept = EntriesWithin(specs, AllowedKeywords(specs))
                          /\ "items" \in OwnKeys(kept) <=>
                               /\ "items" \in OwnKeys(specs)
                               /\ Get(specs, "type") = StringValue("array")
                               /\ Get(specs, "editor") = StringValue("select")
                          /\ "position" \notin OwnKeys(kept)
                          /\ "properties" \notin OwnKeys(kept)

\* The entries of the properties of a schema given to the filter; none when the
\* schema has no properties.
PropertiesOf(schema) ==
  IF "properties" \in OwnKeys(schema.entries)
    THEN ValueAt(schema.entries, "properties").entries
    ELSE <<>>

\* C29: filterValidInputSchemaProperties returns, raising no error, for every
\* input schema whose top-level properties each declare a type among string,
\* boolean, integer, number, object and array.
C29_EveryPropertyTypeAccepted ==
  (/\ pc = "filtered"
   /\ \A entry \in Range(PropertiesOf(inputSchema)) :
        /\ "type" \in OwnKeys(entry[2].entries)
        /\ ValueAt(entry[2].entries, "type").t = "string"
        /\ ValueAt(entry[2].entries, "type").v
             \in {"string", "boolean", "integer", "number", "object", "array"})
    => filtered.status = "returned"

\* A returned schema that lost a root key, with an array that kept its items
\* next to an object that lost its position and its nested properties.
C20_Witness ==
  /\ pc = "filtered"
  /\ filtered.status = "returned"
  /\ "$schema" \in OwnKeys(inputSchema.entries)
  /\ "$schema" \notin OwnKeys(filtered.value.entries)
  /\ "properties" \in OwnKeys(filtered.value.entries)
  /\ LET sourceProperties == ValueAt(inputSchema.entries, "properties").entries
         resultProperties == ValueAt(filtered.value.entries, "properties").entries
     IN  /\ Len(resultProperties) = 2
         /\ "items" \in OwnKeys(resultProperties[1][2].entries)
         /\ "isSecret" \notin OwnKeys(resultProperties[1][2].entries)
         /\ "properties" \in OwnKeys(sourceProperties[2][2].entries)
         /\ "position" \in OwnKeys(sourceProperties[2][2].entries)
         /\ ObjectKeys(resultProperties[2][2].entries) = <<"type", "patternKey">>

(***************************************************************************)
(* generate.ts: the apify-generate script                                  *)
(*                                                                         *)
(* A file holds what was written to it: a source file the schema it parses *)
(* to, a generated JSON file [json |-> value], a generated TypeScript file *)
(* [ts |-> lines] or [module |-> input utilities].                         *)
(***************************************************************************)

\* The keywords of a schema node, in the order the JSON form lists them.
KeywordOrder ==
  <<"type", "title", "description", "schemaVersion", "position", "default", "editor",
    "items", "properties", "required">>

RECURSIVE JsonOf(_)
\* The JSON value of a schema node of the merge engine.
JsonOf(node) ==
  LET IsOwned(keyword) == keyword \in DOMAIN node
      owned == SelectSeq(KeywordOrder, IsOwned)
      ValueOf(keyword) ==
        IF keyword = "properties"
          THEN ObjectValue([i \in 1..Len(node.properties) |->
                              <<node.properties[i][1], JsonOf(node.properties[i][2])>>])
        ELSE IF keyword = "required" THEN [t |-> "array", elements |-> node.required]
        ELSE IF keyword = "items" THEN JsonOf(node.items)
        ELSE IF keyword = "default" THEN node.default
        ELSE IF keyword = "position"
          THEN [t |-> IF node.position.t = "number" THEN "integer" ELSE "string",
                v |-> ToString(node.position.v)]
        ELSE IF keyword = "schemaVersion" THEN IntegerValue("1")
        ELSE StringValue(node[keyword])
  IN  ObjectValue([i \in 1..Len(owned) |-> <<owned[i], ValueOf(owned[i])>>])

\* The props of parseSchemas at lines 116-122.
ScriptProps(arguments) ==
  [deepMerge |-> arguments.deep_merge]
    @@ (IF Includes(arguments.input, "input")
          THEN [inputSrc |-> arguments.src_input] ELSE <<>>)
    @@ (IF Includes(arguments.input, "dataset")
          THEN [datasetSrc |-> arguments.src_dataset] ELSE <<>>)
    @@ (IF "add_input" \in DOMAIN arguments
          THEN [addInputSrc |-> arguments.add_input] ELSE <<>>)
    @@ (IF "add_dataset" \in DOMAIN arguments
          THEN [addDatasetSrc |-> arguments.add_dataset] ELSE <<>>)

\* fs.writeFileSync(path, content)
WriteFile(fileSystem, path, content) ==
  [q \in DOMAIN fileSystem \cup {path} |-> IF q = path THEN content ELSE fileSystem[q]]

ProcessFailed(error) == [status |-> "failed", error |-> error]

\* The error of fs.readFileSync on a path that does not exist.
NoEntryError(path) == [message |-> "ENOENT: no such file or directory", detail |-> path]

InputTypesPath(arguments) == arguments.output_ts_dir \o "/input.ts"

InputUtilsPath(arguments) == arguments.output_ts_dir \o "/input-utils.ts"

DatasetTypesPath(arguments) == arguments.output_ts_dir \o "/dataset.ts"

\* A new document holding the fields alone.
WithFieldsAlone(actorDatasetSchema, datasetSchema) ==
  ObjectValue(StringifiedObject(Assign(EmptyObject, "fields", datasetSchema)))

\* actorDatasetSchema.fields = datasetSchema, as JSON.stringify writes the document.
WithFields(actorDatasetSchema, datasetSchema) ==
  ObjectValue(StringifiedObject(Assign(actorDatasetSchema.entries, "fields", datasetSchema)))

\* Lines 98-122: the arguments are logged and both schemas parsed and merged.
ParseSources ==
  /\ pc = "main"
  /\ LET result == parseSchemas(ScriptProps(args), files)
     IN  /\ parseResult' = [status |-> result.status, error |-> result.error,
                            inputSchema |-> result.inputSchema,
                            datasetSchema |-> result.datasetSchema]
         /\ fsCalls' = result.calls
         /\ IF result.status = "thrown"
              THEN exit' = ProcessFailed(result.error) /\ pc' = "exited"
              ELSE exit' = exit /\ pc' = "writeInputSchema"
  /\ stdout' = Append(stdout, "Parsed arguments:")
  /\ UNCHANGED <<parseProps, files, args, filesAtStart, mergeVars, generateVars, parserVars>>

\* Lines 124-132: the filtered input schema is written to input_schema.json.
WriteInputSchema ==
  /\ pc = "writeInputSchema"
  /\ stdout' = IF Includes(args.output, "json-schemas")
                 THEN Append(stdout, "Generating JSON schemas...") ELSE stdout
  /\ IF Includes(args.output, "json-schemas") /\ parseResult.inputSchema # <<>>
       THEN LET result == filterValidInputSchemaProperties(JsonOf(parseResult.inputSchema[1]))
            IN  IF result.status = "thrown"
                  THEN /\ exit' = ProcessFailed(result.error)
                       /\ pc' = "exited"
                       /\ UNCHANGED <<files, fsCalls>>
                  ELSE /\ files' = WriteFile(files, args.input_schema,
                                             [json |-> ObjectValue(StringifiedObject(
                                                         result.value.entries))])
                       /\ fsCalls' = Append(fsCalls, <<"writeFileSync", args.input_schema>>)
                       /\ pc' = "writeDatasetSchema"
                       /\ exit' = exit
       ELSE /\ pc' = "writeDatasetSchema"
            /\ UNCHANGED <<files, fsCalls, exit>>
  /\ UNCHANGED <<parseProps, parseResult, args, filesAtStart, mergeVars, generateVars, parserVars>>

\* The step going on to the TypeScript types after its read has failed.
WriteDatasetSchemaCarryingOn ==
  /\ pc = "writeDatasetSchema"
  /\ IF Includes(args.output, "json-schemas") /\ parseResult.datasetSchema # <<>>
       THEN IF ~existsSync(files, args.dataset_schema)
              THEN /\ exit' = ProcessFailed(NoEntryError(args.dataset_schema))
                   /\ pc' = "writeInputTypes"
                   /\ fsCalls' = Append(fsCalls, <<"readFileSync", args.dataset_schema>>)
                   /\ UNCHANGED files
              ELSE LET actorDatasetSchema == ReadJson(files, args.dataset_schema).json
                   IN  /\ files' = WriteFile(files, args.dataset_schema,
                                     [json |-> WithFields(actorDatasetSchema,
                                                          parseResult.datasetSchema[1])])
                       /\ fsCalls' = fsCalls \o <<<<"readFileSync", args.dataset_schema>>,
                                                  <<"writeFileSync", args.dataset_schema>>>>
                       /\ pc' = "writeInputTypes"
                       /\ exit' = exit
       ELSE /\ pc' = "writeInputTypes"
            /\ UNCHANGED <<files, fsCalls, exit>>
  /\ UNCHANGED <<parseProps, parseResult, args, filesAtStart, stdout, mergeVars,
                 generateVars, parserVars>>

\* Lines 134-143: the fields of the document at dataset_schema.json are replaced.
WriteDatasetSchema ==
  /\ pc = "writeDatasetSchema"
  /\ IF Includes(args.output, "json-schemas") /\ parseResult.datasetSchema # <<>>
       THEN IF ~existsSync(files, args.dataset_schema)
              THEN /\ exit' = ProcessFailed(NoEntryError(args.dataset_schema))
                   /\ pc' = "exited"
                   /\ fsCalls' = Append(fsCalls, <<"readFileSync", args.dataset_schema>>)
                   /\ UNCHANGED files
              ELSE LET actorDatasetSchema == ReadJson(files, args.dataset_schema).json
                   IN  /\ files' = WriteFile(files, args.dataset_schema,
                                     [json |-> WithFields(actorDatasetSchema,
                                                          parseResult.datasetSchema[1])])
                       /\ fsCalls' = fsCalls \o <<<<"readFileSync", args.dataset_schema>>,
                                                  <<"writeFileSync", args.dataset_schema>>>>
                       /\ pc' = "writeInputTypes"
                       /\ exit' = exit
       ELSE /\ pc' = "writeInputTypes"
            /\ UNCHANGED <<files, fsCalls, exit>>
  /\ UNCHANGED <<parseProps, parseResult, args, filesAtStart, stdout, mergeVars,
                 generateVars, parserVars>>

\* Lines 146-156: input.ts is compiled from the input schema.
WriteInputTypes ==
  /\ pc = "writeInputTypes"
  /\ stdout' = IF Includes(args.output, "ts-types")
                 THEN Append(stdout, "Generating TypeScript types...") ELSE stdout
  /\ IF Includes(args.output, "ts-types") /\ parseResult.inputSchema # <<>>
       THEN /\ files' = WriteFile(files, InputTypesPath(args),
                          [ts |-> compile(SpreadNodes(parseResult.inputSchema[1],
                                                      [title |-> "Input"]))])
            /\ fsCalls' = fsCalls \o <<<<"mkdirSync", args.output_ts_dir>>,
                                       <<"writeFileSync", InputTypesPath(args)>>>>
       ELSE UNCHANGED <<files, fsCalls>>
  /\ pc' = "writeInputUtils"
  /\ UNCHANGED <<parseProps, parseResult, args, filesAtStart, exit, mergeVars,
                 generateVars, parserVars>>

\* The step writing input-utils.ts whatever include_input_utils says.
WriteInputUtilsAlways ==
  /\ pc = "writeInputUtils"
  /\ IF Includes(args.output, "ts-types") /\ parseResult.inputSchema # <<>>
       THEN /\ stdout' = Append(stdout, "Generating input defaults utilities...")
            /\ files' = WriteFile(files, InputUtilsPath(args),
                          [module |-> generateInputDefaultsFileContent(
                                        parseResult.inputSchema[1])])
            /\ fsCalls' = Append(fsCalls, <<"writeFileSync", InputUtilsPath(args)>>)
       ELSE UNCHANGED <<files, fsCalls, stdout>>
  /\ pc' = "writeDatasetTypes"
  /\ UNCHANGED <<parseProps, parseResult, args, filesAtStart, exit, mergeVars,
                 generateVars, parserVars>>

\* Lines 157-163: input-utils.ts is generated when include_input_utils is "true".
WriteInputUtils ==
  /\ pc = "writeInputUtils"
  /\ IF /\ Includes(args.output, "ts-types")
        /\ parseResult.inputSchema # <<>>
        /\ args.include_input_utils = "true"
       THEN /\ stdout' = Append(stdout, "Generating input defaults utilities...")
            /\ files' = WriteFile(files, InputUtilsPath(args),
                          [module |-> generateInputDefaultsFileContent(
                                        parseResult.inputSchema[1])])
            /\ fsCalls' = Append(fsCalls, <<"writeFileSync", InputUtilsPath(args)>>)
       ELSE UNCHANGED <<files, fsCalls, stdout>>
  /\ pc' = "writeDatasetTypes"
  /\ UNCHANGED <<parseProps, parseResult, args, filesAtStart, exit, mergeVars,
                 generateVars, parserVars>>

\* Lines 166-176: dataset.ts is compiled from the dataset schema.
WriteDatasetTypes ==
  /\ pc = "writeDatasetTypes"
  /\ IF Includes(args.output, "ts-types") /\ parseResult.datasetSchema # <<>>
       THEN /\ files' = WriteFile(files, DatasetTypesPath(args),
                          [ts |-> compile(SpreadNodes(parseResult.datasetSchema[1],
                                                      [title |-> "DatasetItem"]))])
            /\ fsCalls' = fsCalls \o <<<<"mkdirSync", args.output_ts_dir>>,
                                       <<"writeFileSync", DatasetTypesPath(args)>>>>
       ELSE UNCHANGED <<files, fsCalls>>
  /\ pc' = "logSuccess"
  /\ UNCHANGED <<parseProps, parseResult, args, filesAtStart, exit, stdout, mergeVars,
                 generateVars, parserVars>>

\* Line 179: the success message, and the process ends.
LogSuccess ==
  /\ pc = "logSuccess"
  /\ stdout' = Append(stdout, "Generation completed successfully.")
  /\ exit' = [status |-> "succeeded"]
  /\ pc' = "exited"
  /\ UNCHANGED <<parseVars, args, filesAtStart, mergeVars, generateVars, parserVars>>

ScriptNext ==
  \/ ParseSources
  \/ WriteInputSchema
  \/ WriteDatasetSchema
  \/ WriteInputTypes
  \/ WriteInputUtils
  \/ WriteDatasetTypes
  \/ LogSuccess

\* The input sources of a run: a schema the whole run accepts, one with a
\* property without a type, and one with a property of type number.
ScriptInputSchemas ==
  {[type |-> "object", title |-> "Actor input", schemaVersion |-> 1,
    properties |-> <<<<"a", [type |-> "string", default |-> StringValue("x")]>>,
                     <<"b", [type |-> "integer"]>>>>,
    required |-> <<"b">>],
   [type |-> "object", title |-> "Actor input",
    properties |-> <<<<"a", [type |-> "string"]>>,
                     <<"b", [title |-> "untyped"]>>>>],
   [type |-> "object", title |-> "Actor input",
    properties |-> <<<<"a", [type |-> "number", default |-> IntegerValue("42")]>>>>]}

ScriptDatasetSchemas ==
  {[type |-> "object",
    properties |-> <<<<"url", [type |-> "string"]>>,
                     <<"price", [type |-> "number", position |-> NumPos(1)]>>>>,
    required |-> <<"url">>]}

\* The documents at the destination of the dataset schema: with and without fields.
DatasetSchemaDocuments ==
  {[json |-> ObjectValue(<<<<"actorSpecification", IntegerValue("1")>>,
                           <<"fields", [type |-> "object"]>>,
                           <<"views", ObjectValue(EmptyObject)>>>>)],
   [json |-> ObjectValue(<<<<"actorSpecification", IntegerValue("1")>>>>)]}

\* Artifacts an earlier run left behind.
StaleArtifacts ==
  (".actor/input_schema.json" :> [json |-> ObjectValue(EmptyObject)])
    @@ ("src/generated/input.ts" :> [ts |-> <<>>])
    @@ ("src/generated/input-utils.ts" :> [module |-> [stale |-> TRUE]])
    @@ ("src/generated/dataset.ts" :> [ts |-> <<>>])

\* A file that may not exist.
OptionalFile(path, contents) == {<<>>} \cup {path :> content : content \in contents}

ScriptFileSystems ==
  {("add/input.json" :> [type |-> "object",
                         properties |-> <<<<"c", [type |-> "boolean"]>>>>,
                         required |-> <<"c">>])
     @@ i @@ d @@ e @@ stale
     @@ ("add/dataset-item.json" :> [type |-> "object",
                                     properties |-> <<<<"title", [type |-> "string",
                                                                    position |-> NumPos(0)]>>>>,
                                     required |-> <<"url">>]) :
     i \in OptionalFile("src-schemas/input.json", ScriptInputSchemas),
     d \in OptionalFile("src-schemas/dataset-item.json", ScriptDatasetSchemas),
     e \in OptionalFile(".actor/dataset_schema.json", DatasetSchemaDocuments),
     stale \in {<<>>, StaleArtifacts}}

\* The selections of --input and of --output.
Selections(choices) == {<<>>, <<choices[1]>>, <<choices[2]>>, choices}

ScriptArguments ==
  {[input |-> input, output |-> output, src_input |-> src,
    src_dataset |-> "src-schemas/dataset-item.json", deep_merge |-> deep,
    input_schema |-> ".actor/input_schema.json",
    dataset_schema |-> ".actor/dataset_schema.json",
    output_ts_dir |-> "src/generated", include_input_utils |-> utils]
     @@ add @@ addDataset :
     input \in Selections(<<"input", "dataset">>),
     output \in Selections(<<"json-schemas", "ts-types">>),
     src \in {"src-schemas/input.json", ""},
     deep \in BOOLEAN,
     utils \in {"true", "false"},
     add \in OptionalProp("add_input", {"add/input.json"}),
     addDataset \in OptionalProp("add_dataset", {"add/dataset-item.json"})}

ScriptInit ==
  /\ args \in ScriptArguments
  /\ files \in ScriptFileSystems
  /\ filesAtStart = files
  /\ exit = [status |-> "running"]
  /\ stdout = <<>>
  /\ parseProps = Unused
  /\ parseResult = [status |-> "pending"]
  /\ fsCalls = <<>>
  /\ MergeUnused
  /\ GenerateUnused
  /\ ParserUnused
  /\ pc = "main"

ScriptSpec == ScriptInit /\ [][ScriptNext]_vars

(***************************************************************************)
(* Properties of the apify-generate script                                 *)
(***************************************************************************)

\* The path was written during the run.
Written(path) == <<"writeFileSync", path>> \in Range(fsCalls)

\* The file at the path is as it was when the run started.
LeftAsBefore(path) ==
  /\ path \in DOMAIN files <=> path \in DOMAIN filesAtStart
  /\ path \in DOMAIN files => files[path] = filesAtStart[path]

\* Some top-level property lacks a type or declares one outside the switch.
HasUnfilterableProperty(schema) ==
  \E entry \in Range(ObjectEntries(PropertiesOrEmpty(schema))) :
    "type" \notin DOMAIN entry[2] \/ entry[2].type \notin SwitchCases

\* C21: when a top-level property of the input schema lacks a type or declares
\* a type the filter does not recognise, filtering throws instead of returning a
\* schema, the run fails there and input_schema.json is not written.
C21_UnfilterableProperty ==
  [][(/\ pc = "writeInputSchema"
      /\ Includes(args.output, "json-schemas")
      /\ parseResult.inputSchema # <<>>
      /\ HasUnfilterableProperty(parseResult.inputSchema[1]))
       => /\ filterValidInputSchemaProperties(JsonOf(parseResult.inputSchema[1])).status
               = "thrown"
          /\ exit'.status = "failed"
          /\ pc' = "exited"
          /\ files' = files
          /\ fsCalls' = fsCalls]_vars

\* A run that failed on a property without a type, over a stale input_schema.json.
C21_Witness ==
  /\ pc = "exited"
  /\ exit.status = "failed"
  /\ exit.error.message = "Property's type is required in the input schema"
  /\ ~Written(args.input_schema)
  /\ args.input_schema \in DOMAIN files
  /\ LeftAsBefore(args.input_schema)

\* The source is selected by --input.
Selected(source) == Includes(args.input, source)

\* The kind of output is selected by --output.
Wanted(kind) == Includes(args.output, kind)

\* The source is selected and its path is not the empty string.
Sourced(source) ==
  /\ Selected(source)
  /\ IF source = "input" THEN args.src_input # "" ELSE args.src_dataset # ""

\* The artifacts of a run, each with the condition under which the run is to
\* write it, the source being selected or sourced as the operator says.
ArtifactRules(Chosen(_)) ==
  {<<args.input_schema, Chosen("input") /\ Wanted("json-schemas")>>,
   <<args.dataset_schema, Chosen("dataset") /\ Wanted("json-schemas")>>,
   <<InputTypesPath(args), Chosen("input") /\ Wanted("ts-types")>>,
   <<DatasetTypesPath(args), Chosen("dataset") /\ Wanted("ts-types")>>,
   <<InputUtilsPath(args),
     Chosen("input") /\ Wanted("ts-types") /\ args.include_input_utils = "true">>}

\* C22 as stated: at the end of every run, each artifact has been written if
\* and only if its source and its kind of output are selected, and is otherwise
\* as it was before the run.
C22_WrittenIffSelected ==
  pc = "exited" =>
    \A rule \in ArtifactRules(Selected) :
      /\ Written(rule[1]) <=> rule[2]
      /\ ~rule[2] => LeftAsBefore(rule[1])

\* C22: a run writes an artifact only if its source and its kind of output are
\* selected (and include-input-utils is "true", for input-utils.ts); a run that
\* completes has written exactly the artifacts whose source is selected with a
\* non-empty source path and whose kind is selected; an artifact the run did not
\* write, and every source file, is as it was before the run.
C22_SelectedArtifacts ==
  /\ \A rule \in ArtifactRules(Selected) : Written(rule[1]) => rule[2]
  /\ \A rule \in ArtifactRules(Sourced) :
       /\ (pc = "exited" /\ exit.status = "succeeded") => (Written(rule[1]) <=> rule[2])
       /\ ~Written(rule[1]) => LeftAsBefore(rule[1])
  /\ \A path \in {"src-schemas/input.json", "src-schemas/dataset-item.json",
                   "add/input.json", "add/dataset-item.json"} :
       LeftAsBefore(path)

\* A completed run of the dataset source alone, for TypeScript alone, over
\* stale artifacts: dataset.ts is written and nothing else is touched.
C22_Witness ==
  /\ pc = "exited"
  /\ exit.status = "succeeded"
  /\ args.input = <<"dataset">>
  /\ args.output = <<"ts-types">>
  /\ args.include_input_utils = "true"
  /\ Written(DatasetTypesPath(args))
  /\ DatasetTypesPath(args) \in DOMAIN filesAtStart
  /\ files[DatasetTypesPath(args)] # filesAtStart[DatasetTypesPath(args)]
  /\ ~Written(InputUtilsPath(args))
  /\ InputUtilsPath(args) \in DOMAIN files
  /\ LeftAsBefore(InputUtilsPath(args))
  /\ LeftAsBefore(args.dataset_schema)

\* The entries of an ordered map other than the one of the key.
EntriesExcept(entries, key) ==
  LET IsOther(entry) == entry[1] # key
  IN  SelectSeq(entries, IsOther)

\* C23: the step that generates the dataset JSON schema fails when the
\* destination document does not exist, and otherwise writes that document back
\* with its fields key holding the merged dataset schema as parseSchemas returned
\* it, every other key keeping its place and its value.
C23_DatasetReadModifyWrite ==
  [][(/\ pc = "writeDatasetSchema"
      /\ Wanted("json-schemas")
      /\ parseResult.datasetSchema # <<>>)
       => IF args.dataset_schema \notin DOMAIN files
            THEN /\ exit'.status = "failed"
                 /\ pc' = "exited"
                 /\ files' = files
            ELSE /\ exit'.status = "running"
                 /\ ValueAt(files'[args.dataset_schema].json.entries, "fields")
                      = parseResult.datasetSchema[1]
                 /\ EntriesExcept(files'[args.dataset_schema].json.entries, "fields")
                      = EntriesExcept(files[args.dataset_schema].json.entries, "fields")
                 /\ Len(files'[args.dataset_schema].json.entries)
                      = Len(EntriesExcept(files[args.dataset_schema].json.entries, "fields")) + 1
                 /\ \A path \in DOMAIN files \ {args.dataset_schema} :
                      files'[path] = files[path]]_vars

\* A document with fields and another key after it, rewritten with the schema
\* merged from the dataset source and its additional schema.
C23_Witness ==
  /\ pc = "writeInputTypes"
  /\ Written(args.dataset_schema)
  /\ "add_dataset" \in DOMAIN args
  /\ ObjectKeys(files[args.dataset_schema].json.entries)
       = <<"actorSpecification", "fields", "views">>
  /\ ValueAt(files[args.dataset_schema].json.entries, "fields") = parseResult.datasetSchema[1]
  /\ ValueAt(files[args.dataset_schema].json.entries, "fields")
       # ValueAt(filesAtStart[args.dataset_schema].json.entries, "fields")
  /\ OwnKeys(parseResult.datasetSchema[1].properties) = {"title", "url", "price"}

RECURSIVE HasDeduplicatedRequired(_)
\* The required array of the node, and of every object node under its
\* properties, names no key twice.
HasDeduplicatedRequired(node) ==
  /\ \A i, j \in 1..Len(RequiredOrEmpty(node)) :
       i # j => node.required[i] # node.required[j]
  /\ \A entry \in Range(ObjectEntries(PropertiesOrEmpty(node))) :
       HasDeduplicatedRequired(entry[2])

\* C24: in every schema parseSchemas returns, with or without an additional
\* schema and with deepMerge true or false, no required array, at the root or at
\* a nested object node, names a key twice.
C24_RequiredDeduplicated ==
  (pc = "parseSchemasDone" /\ parseResult.status = "returned") =>
    \A key \in {"inputSrc", "datasetSrc"} :
      ReturnedSchema(key) # <<>> => HasDeduplicatedRequired(ReturnedSchema(key)[1])

\* The path given for the source.
SourcePath(source) == IF source = "input" THEN args.src_input ELSE args.src_dataset

\* The artifacts generated from the source that the run is asked for.
ArtifactsAsked(source) ==
  {rule[1] : rule \in {r \in ArtifactRules(Sourced) :
                         /\ r[2]
                         /\ r[1] \in IF source = "input"
                                       THEN {args.input_schema, InputTypesPath(args),
                                             InputUtilsPath(args)}
                                       ELSE {args.dataset_schema, DatasetTypesPath(args)}}}

\* C25: when both sources are selected and the file of one of them does not
\* exist, the failure is confined to the artifacts of that source: the artifacts
\* of the other source, whose file and destination exist, are still produced.
C25_FailureConfinedToSource ==
  pc = "exited" =>
    \A source \in {"input", "dataset"} :
      LET other == IF source = "input" THEN "dataset" ELSE "input"
      IN  (/\ Sourced(source) /\ Sourced(other)
           /\ ~existsSync(filesAtStart, SourcePath(source))
           /\ existsSync(filesAtStart, SourcePath(other))
           /\ other = "dataset" => existsSync(filesAtStart, args.dataset_schema)
           /\ other = "input" =>
                ~HasUnfilterableProperty(filesAtStart[SourcePath(other)]))
            => \A path \in ArtifactsAsked(other) : Written(path)

\* The artifacts in the order the script writes them.
ArtifactOrder ==
  <<args.input_schema, args.dataset_schema, InputTypesPath(args), InputUtilsPath(args),
    DatasetTypesPath(args)>>

\* The paths written so far, in the order of the writes.
WrittenPaths ==
  LET IsWrite(fsCall) == fsCall[1] = "writeFileSync"
  IN  [i \in 1..Len(SelectSeq(fsCalls, IsWrite)) |-> SelectSeq(fsCalls, IsWrite)[i][2]]

\* The calls parseSchemas makes on the sources.
IsSourceCall(fsCall) ==
  /\ fsCall[1] \in {"existsSync", "readFileSync"}
  /\ fsCall[2] \notin Range(ArtifactOrder)

\* C26: the artifacts are written in the order input_schema.json,
\* dataset_schema.json, input.ts, input-utils.ts, dataset.ts, each at most once
\* and none before both schemas are parsed and merged; a step is taken only
\* while no step has failed, what was written stays as written, and the success
\* message is printed by the completed run alone.
C26_StepOrder ==
  /\ [](/\ \A i, j \in 1..Len(WrittenPaths) :
             i < j => IndexIn(ArtifactOrder, WrittenPaths[i])
                        < IndexIn(ArtifactOrder, WrittenPaths[j])
        /\ WrittenPaths # <<>> => parseResult.status = "returned"
        /\ \A i, j \in 1..Len(fsCalls) :
             (IsSourceCall(fsCalls[j]) /\ ~IsSourceCall(fsCalls[i])) => j < i
        /\ "Generation completed successfully." \in Range(stdout)
             <=> exit.status = "succeeded"
        /\ exit.status = "failed" => pc = "exited")
  /\ [][/\ exit.status = "running"
        /\ \A path \in Range(WrittenPaths) :
             path \in DOMAIN files' /\ files'[path] = files[path]
        /\ Len(fsCalls') >= Len(fsCalls)
        /\ SubSeq(fsCalls', 1, Len(fsCalls)) = fsCalls]_vars

\* A run that failed on the missing dataset_schema.json after it wrote
\* input_schema.json, with the TypeScript types asked for and not written.
C26_Witness ==
  /\ pc = "exited"
  /\ exit.status = "failed"
  /\ exit.error = NoEntryError(args.dataset_schema)
  /\ WrittenPaths = <<args.input_schema>>
  /\ args.input_schema \notin DOMAIN filesAtStart
  /\ args.input_schema \in DOMAIN files
  /\ Wanted("ts-types")
  /\ InputTypesPath(args) \notin DOMAIN files
  /\ "Generation completed successfully." \notin Range(stdout)

(***************************************************************************)
(* parseGeneratedInputParams on texts holding a declaration of Input       *)
(***************************************************************************)

MaxMembers == 2

\* `key: type;` or `key?: type;`, the type being the given tokens.
MemberLine(key, optional, type) ==
  <<Word(key)>> \o (IF optional THEN <<Punct("?")>> ELSE <<>>) \o <<Punct(":")>>
    \o type \o <<Punct(";")>>

\* The members a declaration may hold, each the lines it takes: members of a
\* bare type, of a union written with and without spaces, a quoted key, an
\* array, and a nested type literal with a member of its own.
MemberShapes ==
  {<<MemberLine("a", FALSE, <<Word("string")>>)>>,
   <<MemberLine("b", TRUE, <<Word("number")>>)>>,
   <<MemberLine("c", TRUE, <<Word("string"), Punct("|"), Word("null")>>)>>,
   <<MemberLine("d", FALSE,
                <<Word("string"), Space, Punct("|"), Space, Word("number")>>)>>,
   <<<<Quoted("1"), Punct("?"), Punct(":"), Word("string"), Punct(";")>>>>,
   <<MemberLine("e", TRUE, <<Word("unknown"), Punct("[]")>>)>>,
   <<<<Word("proxy"), Punct("?"), Punct(":"), Punct("{")>>,
     MemberLine("useApifyProxy", FALSE, <<Word("boolean")>>),
     <<Punct("}"), Punct(";")>>>>}

RECURSIVE Flatten(_)
\* The lines of a sequence of members.
Flatten(members) ==
  IF members = <<>> THEN <<>> ELSE Head(members) \o Flatten(Tail(members))

\* The opening line of a declaration of Input with the closing line it may have.
InputDeclarations ==
  {<<<<Word("export"), Word("interface"), Word("Input"), Punct("{")>>, <<Punct("}")>>>>,
   <<<<Word("export"), Word("type"), Word("Input"), Punct("="), Punct("{")>>,
     <<Punct("}")>>>>,
   <<<<Word("export"), Word("type"), Word("Input"), Punct("="), Punct("{")>>,
     <<Punct("}"), Punct(";")>>>>}

\* What the text holds before the declaration: the banner, or a declaration of
\* another name.
TextsBefore ==
  {<<<<Punct("/*"), Word("eslint"), Punct("-"), Word("disable"), Punct("*/")>>>>,
   <<<<Word("export"), Word("interface"), Word("Settings"), Punct("{")>>,
     MemberLine("before", FALSE, <<Word("string")>>),
     <<Punct("}")>>>>}

\* What the text holds after the declaration: nothing, or another declaration.
TextsAfter ==
  {<<>>,
   <<<<Word("export"), Word("interface"), Word("Other"), Punct("{")>>,
     MemberLine("after", FALSE, <<Word("string")>>),
     <<Punct("}")>>>>}

\* The texts given to the parser, each with the place of its declaration.
GeneratedTexts ==
  {[before |-> before, open |-> declaration[1], members |-> Flatten(members),
    close |-> declaration[2], after |-> after] :
     before \in TextsBefore,
     declaration \in InputDeclarations,
     members \in UNION {[1..n -> MemberShapes] : n \in 0..MaxMembers},
     after \in TextsAfter}

\* The lines of a text.
LinesOf(text) ==
  text.before \o <<text.open>> \o text.members \o <<text.close>> \o text.after

ParserInit ==
  /\ generatedText \in GeneratedTexts
  /\ parsedParams = <<"pending">>
  /\ MergeUnused
  /\ ParseUnused
  /\ GenerateUnused
  /\ ScriptUnused
  /\ pc = "parse"

\* parseGeneratedInputParams(tsContent)
ParseGeneratedInputParams ==
  /\ pc = "parse"
  /\ parsedParams' = parseGeneratedInputParams(LinesOf(generatedText))
  /\ pc' = "parsed params"
  /\ UNCHANGED <<generatedText, mergeVars, parseVars, generateVars, scriptVars>>

ParserNext == ParseGeneratedInputParams

ParserSpec == ParserInit /\ [][ParserNext]_vars

\* The tokens of a type expression: a bare identifier, or bare identifiers
\* joined by |.
IsUnionOfIdentifiers(tokens) ==
  /\ Len(tokens) % 2 = 1
  /\ \A i \in 1..Len(tokens) :
       IF i % 2 = 1 THEN tokens[i].kind = "word" ELSE tokens[i] = Punct("|")

\* A line of the shape <identifier><optional-marker>?: <type-expression>;
HasMemberShape(line) ==
  /\ Len(line) >= ColonAt(line) + 2
  /\ line[1].kind = "word"
  /\ line[ColonAt(line)] = Punct(":")
  /\ line[Len(line)] = Punct(";")
  /\ IsUnionOfIdentifiers(SubSeq(line, ColonAt(line) + 1, Len(line) - 1))

\* The parameter of a line of that shape: the type text verbatim.
ShapedParam(line) ==
  [key |-> line[1].text,
   type |-> JoinText(SubSeq(line, ColonAt(line) + 1, Len(line) - 1)),
   optional |-> line[2] = Punct("?")]

\* C27: for a text holding a declaration of Input, the parameters are, in
\* declaration order, those of the lines inside the declaration that have the
\* shape <identifier><optional-marker>?: <type-expression>; and of no line
\* after the closing line of the declaration.
C27_ParamsOfDeclaration ==
  pc = "parsed params" =>
    LET shaped == SelectSeq(generatedText.members, HasMemberShape)
    IN  parsedParams = [i \in 1..Len(shaped) |-> ShapedParam(shaped[i])]

====
